---- MODULE Spec2Model ----
(***************************************************************************)
(* Model of the parallel multilingual dubbing pipeline of VideoTranslator: *)
(*   multilang_fast_parallel.py  (segment synthesizer, timeline mixer,     *)
(*                                language job, batch orchestrator)        *)
(*   gui_app_v1.py               (worker-count spin box, processing start, *)
(*                                ProcessingThread and its cancel flag)    *)
(*   s3_generate_voiceover.py    (engine fallback chain, voiceover run)    *)
(*   video_processor.py          (single-language workflow, run_script,    *)
(*                                cancel)                                  *)
(*   s2_translate.py             (translate_text, translate_srt)           *)
(* Durations are integers in milliseconds; quotients of durations are kept *)
(* as exact rationals <<num, den>> with den > 0.                           *)
(* Comparisons of durations are exact: the rounding of the code's binary   *)
(* floating point, which can matter only for a value lying exactly on a    *)
(* threshold, is left out.                                                 *)
(***************************************************************************)
EXTENDS Integers, Sequences, FiniteSets, TLC

VARIABLES
    \* ---- segment synthesizer called on its own (generate_segment_voice_fast)
    s_pc,            \* "call" | "returned"
    s_text,          \* text argument (sequence of characters)
    s_target,        \* target_duration, ms
    s_env,           \* what the external tools do during the call
    s_out,           \* what the call returned and left on disk
    \* ---- GUI worker-count widget and the caller of the batch
    parallel_spin,   \* QSpinBox value
    caller,          \* "none" | "cli" | "gui"
    \* ---- batch orchestrator (FastParallelProcessor.batch_process_parallel)
    cpu_count,       \* mp.cpu_count()
    video_duration,  \* self.video_duration, ms
    pairs,           \* language_srt_pairs: sequence of [lang, srt_file] (a job's arguments)
    srt_data,        \* content of each pair's subtitle file
    max_workers_arg, \* the max_workers argument: NoneVal or an integer
    max_workers,     \* the pool size handed to ProcessPoolExecutor
    bpc,             \* position of batch_process_parallel
    next_pair,       \* index of the submit loop
    done_order,      \* job futures in the order they finished
    pre_finished,    \* futures already finished when as_completed was entered
    results,         \* the results list
    report,          \* the report dictionary (NoReport until built)
    report_writes,   \* number of times batch_report.json was written
    \* ---- language jobs (process_single_language), one per submitted pair
    jpc,             \* position of each job
    subs,            \* parsed subtitle entries
    sub_i,           \* index of the submit loop over subs
    seg,             \* state of each entry's synthesis task
    seg_done_order,  \* segment futures in the order they finished
    seg_pre_finished,\* segment futures finished when as_completed was entered
    segments_info,   \* clips collected for the mixer: <<audio_file, start>>
    mixer_calls,     \* arguments of each merge_audio_segments_fast call
    start_time,      \* the job's local variable start_time
    result,          \* the job's result dictionary
    rc,              \* outcome of the job's burn and mux commands
    faults_left,     \* failures the external tools may still produce in this run
    files,           \* paths that exist on disk
    touched,         \* per job: paths it created, overwrote or deleted
    \* ---- voiceover script (s3_generate_voiceover.generate_voiceover)
    GTTS_AVAILABLE,  \* whether gTTS could be imported
    vo_subs,         \* the parsed subtitle entries
    vo_pc,           \* position of generate_voiceover
    vo_i,            \* index of the loop over the entries
    attempt,         \* loop variable of text_to_speech_edge
    chain_log,       \* per entry: the engine attempts made and how the chain ended
    temp_files,      \* per entry: size of temp_audio/segment_<i>.mp3, -1 if absent
    counts,          \* success_count, failed_count, edge_count, gtts_count
    input_files,     \* clips collected for the mix: <<entry, delay_ms>>
    voice,           \* the voice argument (sequence of characters)
    warnings,        \* times the notice of the engine switch was printed
    mix_result,      \* "none" | "ok" | "fail": exit of the final ffmpeg mix
    \* ---- the program around a batch: ProcessingThread.run, __main__, demo()
    entry,           \* "none" | "gui" | "cli" | "demo" | "api"
    args,            \* what the program was started with
    app_pc,          \* position of the entry point
    lang_i,          \* index of the language loop of ProcessingThread.run
    language_srt_pairs, \* the language codes of the pairs identified so far
    is_cancelled,    \* ProcessingThread.is_cancelled
    processor,       \* "none" | "built" | "failed": FastParallelProcessor(...)
    app_out,         \* how the entry point ended
    \* ---- single-language workflow (VideoProcessor.full_workflow)
    target_lang,     \* the target_lang argument
    wf_pc,           \* position of full_workflow and of the run_script it is in
    wf_step,         \* number of the step being run, 1..4
    current_process, \* VideoProcessor.current_process
    vp_is_cancelled, \* VideoProcessor.is_cancelled
    cancel_called,   \* whether cancel() was called during this run
    steps,           \* the steps called so far
    spawned,         \* the scripts started with Popen so far
    returns,         \* what the steps called so far returned
    wf_result,       \* the result dictionary of full_workflow
    \* ---- subtitle translation (s2_translate.translate_srt)
    t_subs,          \* the parsed entries of the input file
    t_pc,            \* position of translate_srt
    t_i,             \* index of the loop over the entries
    t_attempt,       \* loop variable of translate_text
    t_log,           \* per entry: provider calls made, text and flag returned
    new_subs,        \* the list new_subs
    t_out,           \* entries of the output file (NoFile until written)
    t_ret            \* "none" | "True" | "False": what translate_srt returned

synthVars == <<s_pc, s_text, s_target, s_env, s_out>>
chainVars == <<GTTS_AVAILABLE, vo_subs, vo_pc, vo_i, attempt, chain_log,
               temp_files, counts, input_files, voice, warnings, mix_result>>
appVars   == <<entry, args, app_pc, lang_i, language_srt_pairs, is_cancelled,
               processor, app_out>>
flowVars  == <<target_lang, wf_pc, wf_step, current_process, vp_is_cancelled,
               cancel_called, steps, spawned, returns, wf_result>>
transVars == <<t_subs, t_pc, t_i, t_attempt, t_log, new_subs, t_out, t_ret>>
\* the components a batch does not touch
otherVars == <<synthVars, chainVars, appVars, flowVars, transVars>>
guiVars   == <<parallel_spin, caller>>
batchArgs == <<cpu_count, video_duration, pairs, srt_data>>
batchVars == <<batchArgs, max_workers_arg, max_workers, bpc, next_pair,
               done_order, pre_finished, results, report, report_writes>>
\* everything of the batch but bpc, done_order
batchRest == <<batchArgs, max_workers_arg, max_workers, next_pair,
               pre_finished, results, report, report_writes>>
jobLocals == <<subs, sub_i, seg, seg_done_order, seg_pre_finished,
               segments_info, start_time>>
jobTrace  == <<mixer_calls, rc>>
jobVars   == <<jpc, jobLocals, jobTrace, result, faults_left, files, touched>>
vars      == <<synthVars, chainVars, appVars, flowVars, transVars, guiVars,
               batchVars, jobVars>>

\* video_processor.py lines 17-19: a VideoProcessor that runs nothing
NoProcess == [state |-> "none"]

FlowIdle ==
    /\ target_lang = "en"
    /\ wf_pc = "idle"
    /\ wf_step = 0
    /\ current_process = NoProcess
    /\ vp_is_cancelled = FALSE
    /\ cancel_called = FALSE
    /\ steps = <<>>
    /\ spawned = <<>>
    /\ returns = <<>>
    /\ wf_result = [success |-> FALSE]

NoFile == [written |-> FALSE]

TransIdle ==
    /\ t_subs = <<>>
    /\ t_pc = "idle"
    /\ t_i = 0
    /\ t_attempt = 0
    /\ t_log = <<>>
    /\ new_subs = <<>>
    /\ t_out = NoFile
    /\ t_ret = "none"

(***************************************************************************)
(* Bounds of the model.                                                    *)
(***************************************************************************)
MaxTicks == 70        \* synthesizer durations range over 0..MaxTicks ticks of 50 ms
MaxPairs == 2         \* pairs of a batch whose jobs are run
MaxFaults == 1        \* tool failures and worker deaths in one batch
MaxJobFaults == 1     \* tool failures in one directly called job
MaxPoolPairs == 6     \* pairs of a batch whose pool is only sized
MaxCpu == 6           \* mp.cpu_count() ranges over 1..MaxCpu
MaxChainSubs == 2     \* subtitle entries of a voiceover run
MaxSpinInput == 9     \* values a user tries to enter in the spin box: 0..MaxSpinInput

(***************************************************************************)
(* Small helpers.                                                          *)
(***************************************************************************)
NoneVal == "None"

\* the max_workers argument: None, or an integer
NoWorkersArg == [given |-> FALSE, value |-> 0]
WorkersArg(v) == [given |-> TRUE, value |-> v]

Min2(a, b) == IF a <= b THEN a ELSE b
Max2(a, b) == IF a >= b THEN a ELSE b
Abs(a) == IF a < 0 THEN -a ELSE a

RECURSIVE GCD(_, _)
GCD(a, b) == IF b = 0 THEN a ELSE GCD(b, a % b)

\* rationals <<num, den>>, den > 0, kept in lowest terms
Norm(r) == LET g == GCD(Abs(r[1]), r[2]) IN <<r[1] \div g, r[2] \div g>>
RLess(a, b) == a[1] * b[2] < b[1] * a[2]
RMin(a, b) == IF RLess(b, a) THEN b ELSE a
RMax(a, b) == IF RLess(a, b) THEN b ELSE a
RDiv(n, d) == IF d > 0 THEN Norm(<<n, d>>) ELSE Norm(<<-n, -d>>)

RECURSIVE SortedSeq(_)
\* the elements of a set of numbers in increasing order
SortedSeq(S) ==
    IF S = {} THEN <<>>
    ELSE LET m == CHOOSE x \in S : \A y \in S : x <= y
         IN  <<m>> \o SortedSeq(S \ {m})

Range(s) == {s[k] : k \in DOMAIN s}

(***************************************************************************)
(* Language configuration and strategy.                                    *)
(***************************************************************************)
LANGUAGE_CONFIG ==
    [zh |-> [name |-> "zh-name", gtts_code |-> "zh-CN"],
     en |-> [name |-> "en-name", gtts_code |-> "en"],
     ja |-> [name |-> "ja-name", gtts_code |-> "ja"],
     ko |-> [name |-> "ko-name", gtts_code |-> "ko"],
     fr |-> [name |-> "fr-name", gtts_code |-> "fr"],
     de |-> [name |-> "de-name", gtts_code |-> "de"],
     es |-> [name |-> "es-name", gtts_code |-> "es"],
     pt |-> [name |-> "pt-name", gtts_code |-> "pt"],
     ru |-> [name |-> "ru-name", gtts_code |-> "ru"],
     ar |-> [name |-> "ar-name", gtts_code |-> "ar"],
     hi |-> [name |-> "hi-name", gtts_code |-> "hi"],
     th |-> [name |-> "th-name", gtts_code |-> "th"],
     vi |-> [name |-> "vi-name", gtts_code |-> "vi"],
     it |-> [name |-> "it-name", gtts_code |-> "it"],
     tr |-> [name |-> "tr-name", gtts_code |-> "tr"],
     id |-> [name |-> "id-name", gtts_code |-> "id"]]

\* tts_speed_min = 0.7, tts_speed_max = 1.5
DEFAULT_STRATEGY == [tts_speed_min |-> <<7, 10>>, tts_speed_max |-> <<15, 10>>]

(***************************************************************************)
(* str.strip(): drops leading and trailing whitespace characters.          *)
(***************************************************************************)
IsSpace(c) == c \in {" ", "\t", "\n"}

RECURSIVE LStrip(_)
LStrip(t) == IF t # <<>> /\ IsSpace(Head(t)) THEN LStrip(Tail(t)) ELSE t

RECURSIVE RStrip(_)
RStrip(t) ==
    IF t # <<>> /\ IsSpace(t[Len(t)]) THEN RStrip(SubSeq(t, 1, Len(t) - 1)) ELSE t

strip(t) == RStrip(LStrip(t))

(***************************************************************************)
(* generate_segment_voice_fast.  env says what the external tools do:      *)
(*   tts    "ok" | "raise" (gTTS fails before the file is opened)          *)
(*          | "raise_save" (gTTS.save fails after opening the file)        *)
(*   probe  "ok" (stdout is env.natural / 1000, or empty when it is 0)     *)
(*          | "garbage" (stdout is no number) | "raise"                    *)
(*   ffmpeg "ok" (writes a non-empty output) | "fail" (no output)          *)
(*          | "fail_empty" (leaves an output of size 0) | "raise"          *)
(* The value is what the call returns (ret) and what it leaves on disk.    *)
(***************************************************************************)
\* the ratio without the clamp
RawRatio(natural, target, speed_limit) == RDiv(natural, target)

\* speed_ratio = max(speed_limit[0], min(natural / target, speed_limit[1]))
SpeedRatio(natural, target, speed_limit) ==
    RMax(speed_limit[1], RMin(RDiv(natural, target), speed_limit[2]))

\* abs(speed_ratio - 1.0) > 0.05
UsesAtempo(ratio) == 20 * Abs(ratio[1] - ratio[2]) > ratio[2]

\* a duration that forgets the change of speed
Unadjusted(natural, ratio) == <<natural, 1>>

\* adjusted_duration = natural_duration / speed_ratio
AdjustedDuration(natural, ratio) == Norm(<<natural * ratio[2], ratio[1]>>)

\* the branch on adjusted_duration against target_duration +- 0.1 s
Tolerance == 100

Branch(adjusted, target) ==
    IF RLess(<<target + Tolerance, 1>>, adjusted) THEN "trim"
    ELSE IF RLess(adjusted, <<target - Tolerance, 1>>) THEN "pad"
    ELSE "fit"

\* a - b for rationals
RSub(a, b) == Norm(<<a[1] * b[2] - b[1] * a[2], a[2] * b[2]>>)
RAdd(a, b) == Norm(<<a[1] * b[2] + b[1] * a[2], a[2] * b[2]>>)

NoClip == [ret |-> FALSE, path |-> "failed", init_left |-> FALSE,
           clip_written |-> FALSE, branch |-> "none", atempo |-> FALSE,
           ratio |-> <<0, 1>>, adjusted |-> <<0, 1>>, trim_to |-> -1,
           fade_start |-> -1, silence |-> <<0, 1>>, realized |-> <<0, 1>>]

FilterPlan(natural, target_duration, speed_limit) ==
    LET ratio    == SpeedRatio(natural, target_duration, speed_limit)
        atempo   == UsesAtempo(ratio)
        adjusted == AdjustedDuration(natural, ratio)
        branch   == Branch(adjusted, target_duration)
        \* what the filter chain outputs before trimming or padding
        audio    == IF atempo THEN adjusted ELSE <<natural, 1>>
        silence  == RSub(<<target_duration, 1>>, adjusted)
    IN  [NoClip EXCEPT
            !.branch = branch, !.atempo = atempo, !.ratio = ratio,
            !.adjusted = adjusted,
            !.trim_to = IF branch = "trim" THEN target_duration ELSE -1,
            !.fade_start = IF branch = "trim"
                           THEN Max2(0, target_duration - 100) ELSE -1,
            !.silence = IF branch = "pad" THEN silence ELSE <<0, 1>>,
            !.realized = CASE branch = "trim" -> RMin(audio, <<target_duration, 1>>)
                           [] branch = "pad"  -> RAdd(audio, silence)
                           [] OTHER           -> audio]

\* a synthesizer that goes on with whatever the probe printed
SynthTrustsProbe(text, target_duration, speed_limit, env) ==
    IF env.tts # "ok" THEN [NoClip EXCEPT !.path = "tts_raise"]
    ELSE [NoClip EXCEPT !.path = "clip", !.ret = TRUE, !.clip_written = TRUE]

generate_segment_voice_fast(text, target_duration, speed_limit, env) ==
    IF env.tts = "raise" THEN [NoClip EXCEPT !.path = "tts_raise"]
    ELSE IF env.tts = "raise_save"
        THEN [NoClip EXCEPT !.path = "tts_raise", !.init_left = TRUE]
    ELSE IF env.probe # "ok"
        THEN [NoClip EXCEPT !.path = "probe_raise", !.init_left = TRUE]
    ELSE IF env.natural = 0 THEN [NoClip EXCEPT !.path = "probe_zero"]
    ELSE IF target_duration = 0
        THEN [NoClip EXCEPT !.path = "zero_division", !.init_left = TRUE]
    ELSE LET plan == FilterPlan(env.natural, target_duration, speed_limit) IN
         IF env.ffmpeg = "raise"
            THEN [NoClip EXCEPT !.path = "ffmpeg_raise", !.init_left = TRUE]
         ELSE IF env.ffmpeg = "fail"
            THEN [plan EXCEPT !.path = "ffmpeg_fail", !.realized = <<0, 1>>]
         ELSE IF env.ffmpeg = "fail_empty"
            THEN [plan EXCEPT !.path = "ffmpeg_fail", !.realized = <<0, 1>>,
                              !.clip_written = TRUE]
         ELSE [plan EXCEPT !.path = "clip", !.ret = TRUE, !.clip_written = TRUE]

(***************************************************************************)
(* The synthesizer called on its own, for every natural and target         *)
(* duration of the grid and every behaviour of the tools.                  *)
(***************************************************************************)
Durations == {50 * k : k \in 0..MaxTicks}

SynthEnvs ==
    {[tts |-> "ok", probe |-> "ok", natural |-> n, ffmpeg |-> f] :
        n \in Durations, f \in {"ok", "fail"}}
    \cup {[tts |-> t, probe |-> p, natural |-> 1000, ffmpeg |-> f] :
        t \in {"ok", "raise", "raise_save"}, p \in {"ok", "garbage", "raise"},
        f \in {"ok", "fail", "fail_empty", "raise"}}

SpeedLimit == <<DEFAULT_STRATEGY.tts_speed_min, DEFAULT_STRATEGY.tts_speed_max>>

SynthIdle ==
    /\ s_pc = "idle" /\ s_text = <<>> /\ s_target = 0
    /\ s_env = [tts |-> "ok", probe |-> "ok", natural |-> 0, ffmpeg |-> "ok"]
    /\ s_out = NoClip

SynthInit ==
    /\ s_pc = "call"
    /\ s_text = <<"h", "i">>
    /\ s_target \in Durations
    /\ s_env \in SynthEnvs
    /\ s_out = NoClip

SynthCall ==
    /\ s_pc = "call"
    /\ s_out' = generate_segment_voice_fast(s_text, s_target, SpeedLimit, s_env)
    /\ s_pc' = "returned"
    /\ UNCHANGED <<s_text, s_target, s_env>>
    /\ UNCHANGED <<chainVars, appVars, flowVars, transVars, guiVars, batchVars,
                   jobVars>>

(***************************************************************************)
(* Paths of a language job (os.path.join and the f-strings of the code).   *)
(***************************************************************************)
Pad3(i) ==
    IF i < 10 THEN "00" \o ToString(i)
    ELSE IF i < 100 THEN "0" \o ToString(i) ELSE ToString(i)

join(dir, name) == dir \o "/" \o name

TempDir(output_dir, lang_code) == join(output_dir, "temp_" \o lang_code)
\* i is the 0-based index of enumerate(subs)
SegFile(output_dir, lang_code, i) ==
    join(TempDir(output_dir, lang_code), "seg_" \o Pad3(i) \o ".mp3")
InitFile(output_file) == output_file \o "_init.mp3"
VideoOnly(output_dir, lang_code) ==
    join(TempDir(output_dir, lang_code), "video_only.mp4")
\* a mixed track whose name does not carry the language code
SharedAudio(output_dir, lang_code) == join(output_dir, "audio.mp3")
MergedAudio(output_dir, lang_code) ==
    join(output_dir, "audio_" \o lang_code \o ".mp3")
OutputSrt(output_dir, lang_code) ==
    join(output_dir, "output_" \o lang_code \o ".srt")
OutputVideo(output_dir, lang_code) ==
    join(output_dir, "output_" \o lang_code \o ".mp4")

\* "output" is what the GUI passes, "output_fast" the default of the class
OutputDir == IF caller = "gui" THEN "output" ELSE "output_fast"

(***************************************************************************)
(* merge_audio_segments_fast: the graph it builds and what it returns.     *)
(* env: "ok" (exit 0, output written) | "fail" (non-zero exit, no output)  *)
(*      | "fail_partial" (non-zero exit, output left) | "raise"            *)
(*      | "no_output" (exit 0, no output file)                             *)
(***************************************************************************)
\* a graph that delays every input by the offset of the first clip
MixOneDelay(segs, total_duration) ==
    [inputs |-> [k \in DOMAIN segs |-> segs[k][1]],
     delays |-> [k \in DOMAIN segs |-> segs[1][2]],
     t      |-> total_duration]

\* lines 162-186: input k is segs[k]'s file, delayed by segs[k]'s offset
MixGraph(segs, total_duration) ==
    [inputs |-> [k \in DOMAIN segs |-> segs[k][1]],
     delays |-> [k \in DOMAIN segs |-> segs[k][2]],
     t      |-> total_duration]

\* a mixer that runs its graph on any list
MergeUnguarded(segs, total_duration, env) ==
    [ret     |-> env = "ok",
     ran     |-> env # "raise",
     written |-> env \in {"ok", "fail_partial"}]

\* a mixer that accepts whatever output the graph left
MergePartial(segs, total_duration, env) ==
    [ret     |-> segs # <<>> /\ env \in {"ok", "fail_partial"},
     ran     |-> segs # <<>> /\ env # "raise",
     written |-> segs # <<>> /\ env \in {"ok", "fail_partial"}]

merge_audio_segments_fast(segs, total_duration, env) ==
    IF segs = <<>> THEN [ret |-> FALSE, ran |-> FALSE, written |-> FALSE]
    ELSE [ret     |-> env = "ok",
          ran     |-> env # "raise",
          written |-> env \in {"ok", "fail_partial"}]

(***************************************************************************)
(* Language jobs.                                                          *)
(***************************************************************************)
Jobs == DOMAIN pairs
LangOf(j) == pairs[j].lang

SEG_WORKERS == 4

ClockStart == [kind |-> "clock", at |-> 0]
ZeroDuration == [kind |-> "zero", since |-> ClockStart]

InitialResult(lang_code) ==
    [lang_code |-> lang_code, language |-> LANGUAGE_CONFIG[lang_code].name,
     success |-> FALSE, output_video |-> NoneVal, output_srt |-> NoneVal,
     duration |-> ZeroDuration, error |-> NoneVal]

Executing(j) ==
    jpc[j] \in {"parse", "submit", "collect", "mix", "write_srt", "burn",
                "mux", "cleanup"}

\* a pool without a limit
AlwaysFree == TRUE
AnyThread(j) == TRUE

\* a worker process of the pool is idle
WorkerFree == Cardinality({j \in Jobs : Executing(j)}) < max_workers

\* a thread of the job's ThreadPoolExecutor is idle
SegInFlight(j) == {i \in DOMAIN seg[j] : seg[j][i] = "running"}
ThreadFree(j) == Cardinality(SegInFlight(j)) < SEG_WORKERS

\* file names the job uses in its scratch directory
TempDirPaths(j) ==
    {SegFile(OutputDir, LangOf(j), i - 1) : i \in DOMAIN srt_data[j].entries}
    \cup {InitFile(SegFile(OutputDir, LangOf(j), i - 1)) :
             i \in DOMAIN srt_data[j].entries}
    \cup {VideoOnly(OutputDir, LangOf(j))}

\* an external tool behaves as env; anything but ok uses up one failure
Tool(env, ok) ==
    /\ env # ok => faults_left > 0
    /\ faults_left' = IF env # ok THEN faults_left - 1 ELSE faults_left

\* the local variables of a job exist while it runs: those of the jobs J end
LocalsGone(J) ==
    /\ subs' = [j \in Jobs |-> IF j \in J THEN <<>> ELSE subs[j]]
    /\ sub_i' = [j \in Jobs |-> IF j \in J THEN 0 ELSE sub_i[j]]
    /\ seg' = [j \in Jobs |-> IF j \in J THEN <<>> ELSE seg[j]]
    /\ seg_done_order' =
           [j \in Jobs |-> IF j \in J THEN <<>> ELSE seg_done_order[j]]
    /\ seg_pre_finished' =
           [j \in Jobs |-> IF j \in J THEN {} ELSE seg_pre_finished[j]]
    /\ segments_info' =
           [j \in Jobs |-> IF j \in J THEN <<>> ELSE segments_info[j]]
    /\ start_time' =
           [j \in Jobs |-> IF j \in J THEN ClockStart ELSE start_time[j]]

\* return result
Finish(j, res) ==
    /\ jpc' = [jpc EXCEPT ![j] = "returned"]
    /\ result' = [result EXCEPT ![j] = res]
    /\ done_order' = Append(done_order, j)
    /\ LocalsGone({j})

Touch(j, ps) == touched' = [touched EXCEPT ![j] = @ \cup ps]

\* lines 207-228: a worker takes the job; lookup of the language; makedirs
JobStart(j) ==
    /\ jpc[j] = "queued"
    /\ \A k \in Jobs : k < j => jpc[k] # "queued"
    /\ WorkerFree
    /\ IF LangOf(j) \notin DOMAIN LANGUAGE_CONFIG
       THEN /\ jpc' = [jpc EXCEPT ![j] = "raised"]
            /\ done_order' = Append(done_order, j)
            /\ UNCHANGED <<result, files, touched>>
       ELSE /\ jpc' = [jpc EXCEPT ![j] = "parse"]
            /\ result' = [result EXCEPT ![j] = InitialResult(LangOf(j))]
            /\ files' = files \cup {TempDir(OutputDir, LangOf(j))}
            /\ Touch(j, {TempDir(OutputDir, LangOf(j))})
            /\ UNCHANGED done_order
    /\ UNCHANGED <<jobLocals, jobTrace, faults_left, bpc, batchRest>>
    /\ UNCHANGED <<otherVars, guiVars>>

\* lines 230-234 and 350-354: read and parse the subtitle file
JobParse(j) ==
    /\ jpc[j] = "parse"
    /\ IF ~srt_data[j].readable
       THEN Finish(j, [result[j] EXCEPT !.error = "exception"])
       ELSE /\ jpc' = [jpc EXCEPT ![j] = "submit"]
            /\ subs' = [subs EXCEPT ![j] = srt_data[j].entries]
            /\ sub_i' = [sub_i EXCEPT ![j] = 1]
            /\ seg' = [seg EXCEPT ![j] = [i \in DOMAIN srt_data[j].entries |-> "none"]]
            /\ UNCHANGED <<result, done_order, seg_done_order,
                           seg_pre_finished, segments_info, start_time>>
    /\ UNCHANGED <<jobTrace, faults_left, files, touched, bpc, batchRest>>
    /\ UNCHANGED <<otherVars, guiVars>>

\* a submit loop that skips nothing
SubmitsAll(sub) == TRUE

\* line 245-247: an entry is submitted unless its stripped text is empty
SubmitsEntry(sub) == strip(sub.content) # <<>>

SegFinished(j) == {i \in DOMAIN seg[j] : seg[j][i] \in {"ok", "fail"}}

\* lines 244-259: one iteration of the submit loop; after the last one
\* as_completed(futures) is entered
JobSubmit(j) ==
    /\ jpc[j] = "submit"
    /\ LET i == sub_i[j] IN
       IF i > Len(subs[j])
       THEN /\ jpc' = [jpc EXCEPT ![j] = "collect"]
            /\ seg_pre_finished' = [seg_pre_finished EXCEPT ![j] = SegFinished(j)]
            /\ UNCHANGED <<sub_i, seg, start_time>>
       ELSE /\ sub_i' = [sub_i EXCEPT ![j] = i + 1]
            /\ UNCHANGED <<jpc, seg_pre_finished>>
            /\ IF SubmitsEntry(subs[j][i])
               THEN /\ seg' = [seg EXCEPT ![j][i] = "queued"]
                    /\ start_time' = [start_time EXCEPT ![j] =
                           [kind |-> "sub_start", at |-> subs[j][i].start]]
               ELSE UNCHANGED <<seg, start_time>>
    /\ UNCHANGED <<subs, seg_done_order, segments_info, jobTrace, result,
                   faults_left, files, touched>>
    /\ UNCHANGED <<otherVars, guiVars, batchVars>>

\* a pool thread takes the oldest queued task
SegStart(j, i) ==
    /\ jpc[j] \in {"submit", "collect"}
    /\ seg[j][i] = "queued"
    /\ \A k \in DOMAIN seg[j] : k < i => seg[j][k] # "queued"
    /\ ThreadFree(j)
    /\ seg' = [seg EXCEPT ![j][i] = "running"]
    /\ UNCHANGED <<jpc, subs, sub_i, seg_done_order, seg_pre_finished,
                   segments_info, start_time, jobTrace, result, faults_left,
                   files, touched>>
    /\ UNCHANGED <<otherVars, guiVars, batchVars>>

SegOk == [tts |-> "ok", probe |-> "ok", natural |-> 1000, ffmpeg |-> "ok"]

SegEnvs ==
    {SegOk,
     [SegOk EXCEPT !.tts = "raise"],
     [SegOk EXCEPT !.probe = "garbage"],
     [SegOk EXCEPT !.natural = 0],
     [SegOk EXCEPT !.ffmpeg = "fail_empty"]}

\* in a batch the probe is not made to print 0: a job treats that failure
\* as it treats the others
BatchSegEnvs == SegEnvs \ {[SegOk EXCEPT !.natural = 0]}

\* lines 254-258 run by a pool thread: generate_segment_voice_fast returns
SegDone(j, i) ==
    /\ jpc[j] \in {"submit", "collect"}
    /\ seg[j][i] = "running"
    /\ \E env \in (IF bpc = "direct" THEN SegEnvs ELSE BatchSegEnvs) :
        LET audio_file == SegFile(OutputDir, LangOf(j), i - 1)
            out == generate_segment_voice_fast(
                       strip(subs[j][i].content),
                       subs[j][i].end - subs[j][i].start, SpeedLimit, env)
            made == (IF out.clip_written THEN {audio_file} ELSE {})
                    \cup (IF out.init_left THEN {InitFile(audio_file)} ELSE {})
            used == (IF out.clip_written THEN {audio_file} ELSE {})
                    \cup (IF out.init_left \/ out.path # "tts_raise"
                          THEN {InitFile(audio_file)} ELSE {})
        IN  /\ Tool(env, SegOk)
            /\ seg' = [seg EXCEPT ![j][i] = IF out.ret THEN "ok" ELSE "fail"]
            /\ files' = (files \ {InitFile(audio_file)}) \cup made
            /\ Touch(j, used)
    \* the order of finishing matters to as_completed once it is entered
    /\ seg_done_order' = [seg_done_order EXCEPT ![j] =
           IF jpc[j] = "collect" THEN Append(@, i) ELSE @]
    /\ UNCHANGED <<jpc, subs, sub_i, seg_pre_finished, segments_info,
                   start_time, jobTrace, result>>
    /\ UNCHANGED <<otherVars, guiVars, batchVars>>

\* position of x in the sequence s (x occurs in s)
Pos(s, x) == CHOOSE k \in DOMAIN s : s[k] = x

\* the futures as_completed may yield next: those finished before it was
\* entered, in any order, then the others in the order they finished
NextCompleted(finished, pre, order) ==
    IF finished \cap pre # {} THEN finished \cap pre
    ELSE {x \in finished : \A y \in finished : Pos(order, x) <= Pos(order, y)}

\* a clip paired with the offset of the entry at its rank of arrival
ClipInfoByArrival(j, i) ==
    <<SegFile(OutputDir, LangOf(j), i - 1),
      subs[j][Len(segments_info[j]) + 1].start>>

\* lines 249-251, 259, 263: futures[future] holds the clip path and the
\* start offset of the entry the task was submitted for
ClipInfo(j, i) ==
    <<SegFile(OutputDir, LangOf(j), i - 1), subs[j][i].start>>

\* a collect loop that keeps the clip of every finished task
CollectsAny(status) == TRUE

\* lines 264-266: if success: segments_info.append(...)
Collects(status) == status = "ok"

\* lines 262-272: one iteration of the collect loop, or its end
JobCollect(j) ==
    /\ jpc[j] = "collect"
    /\ IF \A i \in DOMAIN seg[j] : seg[j][i] \in {"none", "taken_ok", "taken_fail"}
       THEN /\ jpc' = [jpc EXCEPT ![j] = "mix"]
            /\ UNCHANGED <<seg, segments_info>>
       ELSE \E i \in NextCompleted(SegFinished(j), seg_pre_finished[j],
                                   seg_done_order[j]) :
            /\ seg' = [seg EXCEPT ![j][i] =
                          IF seg[j][i] = "ok" THEN "taken_ok" ELSE "taken_fail"]
            /\ segments_info' = [segments_info EXCEPT ![j] =
                   IF Collects(seg[j][i])
                   THEN Append(@, ClipInfo(j, i))
                   ELSE @]
            /\ UNCHANGED jpc
    /\ UNCHANGED <<subs, sub_i, seg_done_order, seg_pre_finished, start_time,
                   jobTrace, result, faults_left, files, touched>>
    /\ UNCHANGED <<otherVars, guiVars, batchVars>>

MixEnvs == {"ok", "fail", "fail_partial", "no_output", "raise"}

\* what the job saw and passed when it called the mixer
\* (ok: the graph ran, exited with 0 and wrote its output)
MixCall(j, env) ==
    [graph |-> MixGraph(segments_info[j], video_duration),
     segments_info |-> segments_info[j],
     subs |-> subs[j], seg |-> seg[j], ok |-> env = "ok"]

\* lines 274-286: no clip at all, or the mixer is called
JobMix(j) ==
    /\ jpc[j] = "mix"
    /\ IF segments_info[j] = <<>>
       THEN /\ Finish(j, [result[j] EXCEPT !.error = "no speech segments"])
            /\ UNCHANGED <<mixer_calls, faults_left, files, touched>>
       ELSE \E env \in MixEnvs :
            LET merged_audio == MergedAudio(OutputDir, LangOf(j))
                m == merge_audio_segments_fast(segments_info[j], video_duration, env)
            IN  /\ Tool(env, "ok")
                /\ mixer_calls' = [mixer_calls EXCEPT ![j] = Append(@, MixCall(j, env))]
                /\ files' = IF m.written THEN files \cup {merged_audio} ELSE files
                /\ Touch(j, IF m.written THEN {merged_audio} ELSE {})
                /\ IF m.ret
                   THEN /\ jpc' = [jpc EXCEPT ![j] = "write_srt"]
                        /\ UNCHANGED <<result, done_order, jobLocals>>
                   ELSE Finish(j, [result[j] EXCEPT !.error = "audio merge failed"])
    /\ UNCHANGED <<rc, bpc, batchRest>>
    /\ UNCHANGED <<otherVars, guiVars>>

\* lines 293-296: the adjusted subtitle file
JobWriteSrt(j) ==
    /\ jpc[j] = "write_srt"
    /\ jpc' = [jpc EXCEPT ![j] = "burn"]
    /\ files' = files \cup {OutputSrt(OutputDir, LangOf(j))}
    /\ Touch(j, {OutputSrt(OutputDir, LangOf(j))})
    /\ UNCHANGED <<jobLocals, jobTrace, result, faults_left>>
    /\ UNCHANGED <<otherVars, guiVars, batchVars>>

\* lines 298-305: the subtitle burn; its exit code is not looked at
JobBurn(j) ==
    /\ jpc[j] = "burn"
    /\ \E env \in {"ok", "fail"} :
        /\ Tool(env, "ok")
        /\ rc' = [rc EXCEPT ![j].burn = env]
        /\ files' = IF env = "ok"
                    THEN files \cup {VideoOnly(OutputDir, LangOf(j))} ELSE files
        /\ Touch(j, IF env = "ok" THEN {VideoOnly(OutputDir, LangOf(j))} ELSE {})
    /\ jpc' = [jpc EXCEPT ![j] = "mux"]
    /\ UNCHANGED <<jobLocals, mixer_calls, result>>
    /\ UNCHANGED <<otherVars, guiVars, batchVars>>

\* "fail_partial": non-zero exit with an output file left behind
MuxEnvs == {"ok", "fail", "fail_partial"}

\* lines 307-320: the audio mux; without its video input it fails at once,
\* which is the same failure as the burn's
JobMux(j) ==
    /\ jpc[j] = "mux"
    /\ IF VideoOnly(OutputDir, LangOf(j)) \notin files
       THEN /\ rc' = [rc EXCEPT ![j].mux = "fail"]
            /\ UNCHANGED <<files, touched, faults_left>>
       ELSE \E env \in MuxEnvs :
            /\ Tool(env, "ok")
            /\ rc' = [rc EXCEPT ![j].mux = env]
            /\ files' = IF env = "fail" THEN files
                        ELSE files \cup {OutputVideo(OutputDir, LangOf(j))}
            /\ Touch(j, IF env = "fail" THEN {}
                        ELSE {OutputVideo(OutputDir, LangOf(j))})
    /\ jpc' = [jpc EXCEPT ![j] = "cleanup"]
    /\ UNCHANGED <<jobLocals, mixer_calls, result>>
    /\ UNCHANGED <<otherVars, guiVars, batchVars>>

\* result['duration'] = time.time() - start_time
Elapsed(st) == [kind |-> "elapsed", since |-> st]

\* lines 322-354: cleanup, the check of the output video, return
JobCleanup(j) ==
    /\ jpc[j] = "cleanup"
    /\ LET output_video == OutputVideo(OutputDir, LangOf(j))
           temp_dir == TempDir(OutputDir, LangOf(j))
           clips == {segments_info[j][k][1] : k \in DOMAIN segments_info[j]}
           removed == (clips \cup {VideoOnly(OutputDir, LangOf(j))}) \cap files
           left == files \ removed
           rmdir == IF left \cap TempDirPaths(j) = {} THEN {temp_dir} ELSE {}
       IN  /\ files' = left \ rmdir
           /\ Touch(j, removed \cup rmdir)
           /\ IF output_video \in files
              THEN Finish(j, [result[j] EXCEPT
                        !.success = TRUE, !.output_video = output_video,
                        !.output_srt = OutputSrt(OutputDir, LangOf(j)),
                        !.duration = Elapsed(start_time[j])])
              ELSE Finish(j, [result[j] EXCEPT !.error = "video generation failed"])
    /\ UNCHANGED <<jobTrace, faults_left, bpc, batchRest>>
    /\ UNCHANGED <<otherVars, guiVars>>

\* the jobs submitted to the pool that have no outcome yet
Pending == {j \in Jobs : jpc[j] = "queued" \/ Executing(j)}

\* the worker process of job j dies.  ProcessPoolExecutor marks the pool
\* broken, sets BrokenProcessPool on every pending future, in the order of
\* submission, and terminates the other workers; awaiting any of these
\* futures raises (lines 421-426)
JobCrash(j) ==
    /\ bpc \in {"submit", "collect"}
    /\ Executing(j)
    /\ faults_left > 0
    /\ faults_left' = faults_left - 1
    /\ jpc' = [k \in Jobs |-> IF k \in Pending THEN "crashed" ELSE jpc[k]]
    /\ done_order' = done_order \o SortedSeq(Pending)
    /\ LocalsGone(Pending)
    /\ UNCHANGED <<jobTrace, result, files, touched, bpc, batchRest>>
    /\ UNCHANGED <<otherVars, guiVars>>

(***************************************************************************)
(* The worker-count spin box of the GUI and the callers of a batch.        *)
(***************************************************************************)
SpinMinimum == 1
SpinMaximum == 8
SpinInitial == 3

\* a spin box without a range
Unclamped(v) == v

\* QSpinBox keeps its value inside [minimum, maximum]
SpinClamp(v) == Max2(SpinMinimum, Min2(v, SpinMaximum))

\* the user edits the spin box
SpinSetValue(v) ==
    /\ caller = "none"
    /\ parallel_spin' = SpinClamp(v)
    /\ parallel_spin' # parallel_spin
    /\ UNCHANGED <<caller, otherVars, batchVars, jobVars>>

\* MultilingualGUI.start_processing -> ProcessingThread.run ->
\* batch_process_parallel(pairs, max_workers=self.max_workers)
StartProcessing ==
    /\ caller = "none"
    /\ caller' = "gui"
    /\ max_workers_arg' = WorkersArg(parallel_spin)
    /\ bpc' = "start"
    /\ UNCHANGED <<parallel_spin, otherVars, jobVars, batchArgs, max_workers,
                   next_pair, done_order, pre_finished, results, report,
                   report_writes>>

\* __main__ and demo(): batch_process_parallel(pairs)
CliMain ==
    /\ caller = "none"
    /\ caller' = "cli"
    /\ max_workers_arg' = NoWorkersArg
    /\ bpc' = "start"
    /\ UNCHANGED <<parallel_spin, otherVars, jobVars, batchArgs, max_workers,
                   next_pair, done_order, pre_finished, results, report,
                   report_writes>>

(***************************************************************************)
(* FastParallelProcessor.batch_process_parallel.                           *)
(***************************************************************************)
WORKER_CEILING == 4

Min3(a, b, c) == Min2(a, Min2(b, c))

\* line 397: max_workers = min(mp.cpu_count(), len(language_srt_pairs), 4)
AutoWorkers(cpus, npairs) == Min3(cpus, npairs, WORKER_CEILING)

\* lines 393-407: the pool size is fixed and the pool is created
BatchStart ==
    /\ bpc = "start"
    /\ max_workers' = IF ~max_workers_arg.given
                      THEN AutoWorkers(cpu_count, Len(pairs))
                      ELSE max_workers_arg.value
    /\ bpc' = IF max_workers' <= 0 THEN "raised" ELSE "submit"
    /\ next_pair' = 1
    /\ UNCHANGED <<batchArgs, max_workers_arg, done_order, pre_finished,
                   results, report, report_writes>>
    /\ UNCHANGED <<otherVars, guiVars, jobVars>>

PoolBroken == \E j \in Jobs : jpc[j] = "crashed"

JobFinished(j) == jpc[j] \in {"returned", "raised", "crashed"}

\* lines 410-416: one iteration of the submit loop; after the last one
\* as_completed(futures) is entered
BatchSubmit ==
    /\ bpc = "submit"
    /\ IF next_pair > Len(pairs)
       THEN /\ bpc' = "collect"
            /\ pre_finished' = {j \in Jobs : JobFinished(j)}
            /\ UNCHANGED <<jpc, next_pair>>
       ELSE IF PoolBroken
       THEN \* executor.submit raises BrokenProcessPool
            /\ bpc' = "raised"
            /\ UNCHANGED <<jpc, next_pair, pre_finished>>
       ELSE /\ jpc' = [jpc EXCEPT ![next_pair] = "queued"]
            /\ next_pair' = next_pair + 1
            /\ UNCHANGED <<bpc, pre_finished>>
    /\ UNCHANGED <<batchArgs, max_workers_arg, max_workers, done_order,
                   results, report, report_writes>>
    /\ UNCHANGED <<jobLocals, jobTrace, result, faults_left, files, touched>>
    /\ UNCHANGED <<otherVars, guiVars>>

\* an except branch that records the failed future as a success
ExceptionAsSuccess(lang_code) ==
    [lang_code |-> lang_code, language |-> LANGUAGE_CONFIG[lang_code].name,
     success |-> TRUE, error |-> NoneVal]

\* lines 426-431: the entry recorded when awaiting a job raises
ExceptionEntry(lang_code) ==
    [lang_code |-> lang_code, language |-> LANGUAGE_CONFIG[lang_code].name,
     success |-> FALSE, error |-> "exception"]

Collected == {results[k].job : k \in DOMAIN results}

\* lines 419-431: one iteration of the collect loop
BatchCollect ==
    /\ bpc = "collect"
    /\ \E j \in NextCompleted({k \in Jobs : JobFinished(k)} \ Collected,
                              pre_finished, done_order) :
        results' = Append(results,
            [job   |-> j,
             entry |-> IF jpc[j] = "returned" THEN result[j]
                       ELSE ExceptionEntry(LangOf(j))])
    /\ UNCHANGED <<batchArgs, max_workers_arg, max_workers, bpc, next_pair,
                   done_order, pre_finished, report, report_writes>>
    /\ UNCHANGED <<otherVars, guiVars, jobVars>>

Entries(rs) == [k \in DOMAIN rs |-> rs[k].entry]

\* a count that does not look at the success flag
CountAll(rs) == Cardinality(DOMAIN rs)

\* line 436: success_count = sum(1 for r in results if r['success'])
SuccessCount(rs) == Cardinality({k \in DOMAIN rs : rs[k].success})

\* a loop that ends with the first collected job
SomeCollected == Collected # {}

\* as_completed(futures) is exhausted and the pool has shut down
AllCollected == Collected = Jobs

\* a summary that never divides
NeverRaises(rs) == FALSE

\* line 443: total_time/len(results) raises ZeroDivisionError
ReportRaises(rs) == Len(rs) = 0

\* lines 433-474: the pool is left, the summary is printed, the report is
\* built and written
BatchReport ==
    /\ bpc = "collect"
    /\ AllCollected
    /\ IF ReportRaises(results)
       THEN /\ bpc' = "raised"
            /\ UNCHANGED <<report, report_writes>>
       ELSE /\ report' = [built |-> TRUE,
                          total_languages |-> Len(results),
                          success_count |-> SuccessCount(Entries(results)),
                          max_workers |-> max_workers,
                          results |-> Entries(results)]
            /\ report_writes' = report_writes + 1
            /\ bpc' = "done"
    /\ UNCHANGED <<batchArgs, max_workers_arg, max_workers, next_pair,
                   done_order, pre_finished, results>>
    /\ UNCHANGED <<otherVars, guiVars, jobVars>>

(***************************************************************************)
(* s3_generate_voiceover.py: the engine fallback chain (Edge TTS first,    *)
(* gTTS second) and the loop of generate_voiceover that runs it for every  *)
(* subtitle entry.  File sizes are in bytes, -1 stands for no file.        *)
(***************************************************************************)
MinBytes == 1000

\* line 25: the default voice
VOICE == <<"z", "h", "-", "C", "N", "-", "X", "i", "a", "o", "x", "i", "a", "o", "N", "e", "u", "r", "a", "l">>

\* text_to_speech_edge called with its default max_retries=3 in both cases
DefaultRetries(available) == 3

\* lines 119 and 125: max_retries=3 without gTTS, max_retries=2 with it
MaxRetries(available) == IF available THEN 2 ELSE 3

\* a check that takes any file for a result
AnySize(file_size) == file_size >= 0

\* line 37: if file_size > 1000
Sufficient(file_size) == file_size > MinBytes

\* what one communicate.save() does: it raises or returns, and leaves a file
\* of some size or none
EdgeOutcomes ==
    {[raises |-> TRUE, size |-> -1],
     [raises |-> TRUE, size |-> 5000],
     [raises |-> FALSE, size |-> -1],
     [raises |-> FALSE, size |-> MinBytes],
     [raises |-> FALSE, size |-> MinBytes + 1]}

\* what gTTS(...).save() does: it returns with the file written, or raises
\* with the file untouched (writes FALSE) or cut short
GttsOutcomes ==
    {[raises |-> FALSE, writes |-> TRUE, size |-> 500],
     [raises |-> TRUE, writes |-> FALSE, size |-> -1],
     [raises |-> TRUE, writes |-> TRUE, size |-> 0]}

\* lines 28-55: one iteration of the retry loop of text_to_speech_edge;
\* ret is "True", "False" or "again" (the loop goes on)
EdgeIteration(att, max_retries, out) ==
    IF out.raises
    THEN [ret  |-> IF att < max_retries - 1 THEN "again" ELSE "False",
          size |-> out.size]
    ELSE IF out.size >= 0 /\ Sufficient(out.size)
    THEN [ret |-> "True", size |-> out.size]
    \* an undersized file is removed (line 41), a missing one is just missing
    ELSE [ret  |-> IF att + 1 < max_retries THEN "again" ELSE "False",
          size |-> -1]

NoCounts ==
    [success_count |-> 0, failed_count |-> 0, edge_count |-> 0, gtts_count |-> 0]

\* a tally that books every segment on the primary engine
CountAsEdge(c, engine) == [c EXCEPT !.edge_count = @ + 1]

\* lines 186-189
CountEngine(c, engine) ==
    IF engine = "edge" THEN [c EXCEPT !.edge_count = @ + 1]
    ELSE IF engine = "gtts" THEN [c EXCEPT !.gtts_count = @ + 1]
    ELSE c

Tried(engine, out, ok, left) ==
    [engine |-> engine, raises |-> out.raises, produced |-> out.size,
     ok |-> ok, left |-> left]

Logged(ev, end) ==
    [chain_log EXCEPT ![vo_i] = [tries |-> Append(@.tries, ev), end |-> end]]

\* lines 179-198: text_to_speech_smart returned engine, the clip has size;
\* the notice is printed for the entry of index 0 (vo_i counts from 1)
ChainReturned(engine, size) ==
    /\ warnings' = IF vo_i = 1 /\ engine = "gtts" THEN warnings + 1 ELSE warnings
    /\ IF size > 0
       THEN /\ input_files' = Append(input_files, <<vo_i, vo_subs[vo_i].start>>)
            /\ counts' = [CountEngine(counts, engine) EXCEPT !.success_count = @ + 1]
       ELSE /\ input_files' = input_files
            /\ counts' = [CountEngine(counts, engine) EXCEPT !.failed_count = @ + 1]
    /\ vo_i' = vo_i + 1
    /\ vo_pc' = "loop"

\* lines 122, 135 and 201-203: text_to_speech_smart raised
ChainRaised ==
    /\ counts' = [counts EXCEPT !.failed_count = @ + 1]
    /\ vo_i' = vo_i + 1
    /\ vo_pc' = "loop"
    /\ UNCHANGED <<input_files, warnings>>

ChainIdle ==
    /\ GTTS_AVAILABLE = TRUE
    /\ vo_subs = <<>>
    /\ vo_pc = "idle"
    /\ vo_i = 0
    /\ attempt = 0
    /\ chain_log = <<>>
    /\ temp_files = <<>>
    /\ counts = NoCounts
    /\ input_files = <<>>
    /\ voice = VOICE
    /\ warnings = 0
    /\ mix_result = "none"

\* lines 141-164: the subtitle file is parsed; subs[-1] of an empty list raises
VoStart ==
    /\ vo_pc = "start"
    /\ vo_pc' = IF vo_subs = <<>> THEN "raised" ELSE "loop"
    /\ vo_i' = 1
    /\ UNCHANGED <<GTTS_AVAILABLE, vo_subs, attempt, chain_log, temp_files,
                   counts, input_files, voice, warnings, mix_result>>
    /\ UNCHANGED <<synthVars, appVars, flowVars, transVars, guiVars, batchVars,
                   jobVars>>

\* lines 166-177: the next entry; an entry that is empty after strip() is
\* skipped, for the others the chain starts with the primary engine
VoNext ==
    /\ vo_pc = "loop"
    /\ IF vo_i > Len(vo_subs)
       THEN vo_pc' = "mix" /\ UNCHANGED <<vo_i, attempt>>
       ELSE IF strip(vo_subs[vo_i].content) = <<>>
       THEN vo_i' = vo_i + 1 /\ UNCHANGED <<vo_pc, attempt>>
       ELSE vo_pc' = "edge" /\ attempt' = 0 /\ UNCHANGED vo_i
    /\ UNCHANGED <<GTTS_AVAILABLE, vo_subs, chain_log, temp_files, counts,
                   input_files, voice, warnings, mix_result>>
    /\ UNCHANGED <<synthVars, appVars, flowVars, transVars, guiVars, batchVars,
                   jobVars>>

\* lines 28-55 with 117-128: one attempt of the primary engine
EdgeAttempt ==
    /\ vo_pc = "edge"
    /\ \E out \in EdgeOutcomes :
        LET r == EdgeIteration(attempt, MaxRetries(GTTS_AVAILABLE), out) IN
        /\ temp_files' = [temp_files EXCEPT ![vo_i] = r.size]
        /\ CASE r.ret = "True" ->
                    /\ chain_log' = Logged(Tried("edge", out, TRUE, r.size), "edge")
                    /\ ChainReturned("edge", r.size)
                    /\ UNCHANGED attempt
             [] r.ret = "again" ->
                    /\ chain_log' = Logged(Tried("edge", out, FALSE, r.size), "none")
                    /\ attempt' = attempt + 1
                    /\ UNCHANGED <<vo_pc, vo_i, counts, input_files, warnings>>
             [] OTHER ->
                    IF GTTS_AVAILABLE
                    THEN /\ chain_log' = Logged(Tried("edge", out, FALSE, r.size), "none")
                         /\ vo_pc' = "gtts"
                         /\ UNCHANGED <<vo_i, attempt, counts, input_files,
                                        warnings>>
                    ELSE /\ chain_log' = Logged(Tried("edge", out, FALSE, r.size), "failed")
                         /\ ChainRaised
                         /\ UNCHANGED attempt
    /\ UNCHANGED <<GTTS_AVAILABLE, vo_subs, voice, mix_result>>
    /\ UNCHANGED <<synthVars, appVars, flowVars, transVars, guiVars, batchVars,
                   jobVars>>

\* lines 57-113 with 131-135: the one attempt of the secondary engine
GttsAttempt ==
    /\ vo_pc = "gtts"
    /\ \E out \in GttsOutcomes :
        LET size == IF out.writes THEN out.size ELSE temp_files[vo_i] IN
        /\ temp_files' = [temp_files EXCEPT ![vo_i] = size]
        /\ IF out.raises
           THEN /\ chain_log' = Logged(Tried("gtts", out, FALSE, size), "failed")
                /\ ChainRaised
           ELSE /\ chain_log' = Logged(Tried("gtts", out, TRUE, size), "gtts")
                /\ ChainReturned("gtts", size)
    /\ UNCHANGED <<GTTS_AVAILABLE, vo_subs, attempt, voice, mix_result>>
    /\ UNCHANGED <<synthVars, appVars, flowVars, transVars, guiVars, batchVars,
                   jobVars>>

\* lines 205-264: the clips are mixed, if there is any, and removed; the
\* exit code of the mix is printed as a warning and not looked at again
VoFinish ==
    /\ vo_pc = "mix"
    /\ vo_pc' = "done"
    /\ IF input_files = <<>> THEN mix_result' = "none"
       ELSE mix_result' \in {"ok", "fail"}
    /\ temp_files' = [i \in DOMAIN temp_files |->
           IF \E k \in DOMAIN input_files : input_files[k][1] = i
           THEN -1 ELSE temp_files[i]]
    /\ UNCHANGED <<GTTS_AVAILABLE, vo_subs, vo_i, attempt, chain_log, counts,
                   input_files, voice, warnings>>
    /\ UNCHANGED <<synthVars, appVars, flowVars, transVars, guiVars, batchVars,
                   jobVars>>

(***************************************************************************)
(* text_to_speech_gtts: the language handed to gTTS, taken from the voice  *)
(* identifier.  Identifiers and keys are sequences of characters.          *)
(***************************************************************************)
\* s3_generate_voiceover.py lines 64-99: lang_map, in the order of the dict
lang_map ==
    <<<<<<"z", "h", "-", "C", "N">>, "zh-CN">>,
      <<<<"z", "h", "-", "T", "W">>, "zh-TW">>,
      <<<<"z", "h">>, "zh-CN">>,
      <<<<"e", "n", "-", "U", "S">>, "en">>,
      <<<<"e", "n", "-", "G", "B">>, "en">>,
      <<<<"e", "n">>, "en">>,
      <<<<"j", "a", "-", "J", "P">>, "ja">>,
      <<<<"j", "a">>, "ja">>,
      <<<<"k", "o", "-", "K", "R">>, "ko">>,
      <<<<"k", "o">>, "ko">>,
      <<<<"f", "r", "-", "F", "R">>, "fr">>,
      <<<<"f", "r">>, "fr">>,
      <<<<"d", "e", "-", "D", "E">>, "de">>,
      <<<<"d", "e">>, "de">>,
      <<<<"e", "s", "-", "E", "S">>, "es">>,
      <<<<"e", "s">>, "es">>,
      <<<<"p", "t", "-", "B", "R">>, "pt">>,
      <<<<"p", "t">>, "pt">>,
      <<<<"r", "u", "-", "R", "U">>, "ru">>,
      <<<<"r", "u">>, "ru">>,
      <<<<"a", "r", "-", "S", "A">>, "ar">>,
      <<<<"a", "r">>, "ar">>,
      <<<<"h", "i", "-", "I", "N">>, "hi">>,
      <<<<"h", "i">>, "hi">>,
      <<<<"t", "h", "-", "T", "H">>, "th">>,
      <<<<"t", "h">>, "th">>,
      <<<<"v", "i", "-", "V", "N">>, "vi">>,
      <<<<"v", "i">>, "vi">>,
      <<<<"i", "t", "-", "I", "T">>, "it">>,
      <<<<"i", "t">>, "it">>,
      <<<<"t", "r", "-", "T", "R">>, "tr">>,
      <<<<"t", "r">>, "tr">>,
      <<<<"i", "d", "-", "I", "D">>, "id">>,
      <<<<"i", "d">>, "id">>>>

\* key in lang: key is a substring of lang
Contains(key, lang) ==
    \E k \in 0..(Len(lang) - Len(key)) : SubSeq(lang, k + 1, k + Len(key)) = key

\* a lookup that reads the locale at the head of the identifier
GttsLangByPrefix(lang) ==
    LET hits == {k \in DOMAIN lang_map :
                    lang_map[k][1] = SubSeq(lang, 1, Len(lang_map[k][1]))}
    IN  IF hits = {} THEN "en"
        ELSE lang_map[CHOOSE k \in hits : \A h \in hits : k <= h][2]

\* lines 101-106: the value of the first key that occurs anywhere in lang,
\* 'en' when there is none
GttsLang(lang) ==
    LET hits == {k \in DOMAIN lang_map : Contains(lang_map[k][1], lang)}
    IN  IF hits = {} THEN "en"
        ELSE lang_map[CHOOSE k \in hits : \A h \in hits : k <= h][2]

(***************************************************************************)
(* video_processor.py: VideoProcessor.full_workflow, run_script and cancel.*)
(* cancel() is called by another thread than the one running the workflow. *)
(***************************************************************************)
\* lines 53-68
default_voices ==
    [zh |-> <<"z", "h", "-", "C", "N", "-", "X", "i", "a", "o", "x", "i", "a", "o", "N", "e", "u", "r", "a", "l">>,
     en |-> <<"e", "n", "-", "U", "S", "-", "J", "e", "n", "n", "y", "N", "e", "u", "r", "a", "l">>,
     ja |-> <<"j", "a", "-", "J", "P", "-", "N", "a", "n", "a", "m", "i", "N", "e", "u", "r", "a", "l">>,
     ko |-> <<"k", "o", "-", "K", "R", "-", "S", "u", "n", "H", "i", "N", "e", "u", "r", "a", "l">>,
     fr |-> <<"f", "r", "-", "F", "R", "-", "D", "e", "n", "i", "s", "e", "N", "e", "u", "r", "a", "l">>,
     de |-> <<"d", "e", "-", "D", "E", "-", "K", "a", "t", "j", "a", "N", "e", "u", "r", "a", "l">>,
     es |-> <<"e", "s", "-", "E", "S", "-", "E", "l", "v", "i", "r", "a", "N", "e", "u", "r", "a", "l">>,
     pt |-> <<"p", "t", "-", "B", "R", "-", "F", "r", "a", "n", "c", "i", "s", "c", "a", "N", "e", "u", "r", "a", "l">>,
     ru |-> <<"r", "u", "-", "R", "U", "-", "D", "a", "r", "i", "y", "a", "N", "e", "u", "r", "a", "l">>,
     ar |-> <<"a", "r", "-", "S", "A", "-", "Z", "a", "r", "i", "y", "a", "h", "N", "e", "u", "r", "a", "l">>,
     hi |-> <<"h", "i", "-", "I", "N", "-", "S", "w", "a", "r", "a", "N", "e", "u", "r", "a", "l">>,
     th |-> <<"t", "h", "-", "T", "H", "-", "P", "r", "e", "m", "w", "a", "d", "e", "e", "N", "e", "u", "r", "a", "l">>,
     vi |-> <<"v", "i", "-", "V", "N", "-", "H", "o", "a", "i", "M", "y", "N", "e", "u", "r", "a", "l">>,
     it |-> <<"i", "t", "-", "I", "T", "-", "E", "l", "s", "a", "N", "e", "u", "r", "a", "l">>,
     tr |-> <<"t", "r", "-", "T", "R", "-", "E", "m", "e", "l", "N", "e", "u", "r", "a", "l">>,
     id |-> <<"i", "d", "-", "I", "D", "-", "G", "a", "d", "i", "s", "N", "e", "u", "r", "a", "l">>]

\* lines 22-26 with 278-308: the four steps and their scripts
StepOrder == <<"transcribe", "translate", "voiceover", "merge">>

scripts ==
    [transcribe |-> "s1_transcribe.py", translate |-> "s2_translate.py",
     voiceover |-> "s3_generate_voiceover.py",
     merge |-> "s5_burn_subtitles_simple.py"]

Process(script) == [state |-> "running", script |-> script, returncode |-> 0]

\* Popen.terminate(): SIGTERM ends a running process, an ended one keeps
\* its exit code
SIGTERM == -15

Terminated(p) ==
    IF p.state = "running" THEN [p EXCEPT !.state = "exited", !.returncode = SIGTERM]
    ELSE p

\* a workflow that goes on after a failed step
ContinuesAnyway(ok) == TRUE

\* lines 278, 288, 298, 308: if not self.<step>(...): return result
Continues(ok) == ok

\* the step in progress returned ok to full_workflow (lines 278-319)
StepReturns(ok) ==
    /\ returns' = Append(returns, ok)
    /\ IF ~Continues(ok)
       THEN wf_pc' = "returned" /\ UNCHANGED <<wf_step, steps, wf_result>>
       ELSE IF wf_step = Len(StepOrder)
       THEN /\ wf_pc' = "returned"
            /\ wf_result' = [wf_result EXCEPT !.success = TRUE]
            /\ UNCHANGED <<wf_step, steps>>
       ELSE /\ wf_pc' = "check"
            /\ wf_step' = wf_step + 1
            /\ steps' = Append(steps, StepOrder[wf_step + 1])
            /\ UNCHANGED wf_result

\* lines 256-278: the flag is reset and the first step is called
FlowStart ==
    /\ wf_pc = "called"
    /\ vp_is_cancelled' = FALSE
    /\ wf_step' = 1
    /\ steps' = <<StepOrder[1]>>
    /\ wf_pc' = "check"
    /\ UNCHANGED <<target_lang, current_process, cancel_called, spawned,
                   returns, wf_result>>
    /\ UNCHANGED <<synthVars, chainVars, appVars, transVars, guiVars, batchVars,
                   jobVars>>

\* lines 99-100: run_script looks at the flag before anything else
RunScriptCheck ==
    /\ wf_pc = "check"
    /\ IF vp_is_cancelled
       THEN StepReturns(FALSE)
       ELSE wf_pc' = "spawn" /\ UNCHANGED <<wf_step, steps, returns, wf_result>>
    /\ UNCHANGED <<target_lang, current_process, vp_is_cancelled, cancel_called,
                   spawned>>
    /\ UNCHANGED <<synthVars, chainVars, appVars, transVars, guiVars, batchVars,
                   jobVars>>

\* lines 102-115: Popen starts the script; the voiceover script is started
\* with the default voice of the target language (lines 212-218) and begins
\* generate_voiceover (s3_generate_voiceover.py lines 266-283)
Spawn ==
    /\ wf_pc = "spawn"
    /\ current_process' = Process(scripts[StepOrder[wf_step]])
    /\ spawned' = Append(spawned, scripts[StepOrder[wf_step]])
    /\ wf_pc' = "read"
    /\ IF StepOrder[wf_step] = "voiceover"
       THEN /\ voice' = default_voices[target_lang]
            /\ vo_pc' = "start"
       ELSE UNCHANGED <<voice, vo_pc>>
    /\ UNCHANGED <<GTTS_AVAILABLE, vo_subs, vo_i, attempt, chain_log, temp_files,
                   counts, input_files, warnings, mix_result>>
    /\ UNCHANGED <<target_lang, wf_step, vp_is_cancelled, cancel_called, steps,
                   returns, wf_result>>
    /\ UNCHANGED <<synthVars, appVars, transVars, guiVars, batchVars, jobVars>>

\* what terminate() does to the voiceover script when it is the one running
Killed(p) ==
    IF p.state = "running" /\ p.script = scripts.voiceover THEN "killed" ELSE vo_pc

\* a script other than the voiceover one ends, with exit code 0 or not
ScriptExits ==
    /\ current_process # NoProcess
    /\ current_process.state = "running"
    /\ current_process.script # scripts.voiceover
    /\ \E code \in {0, 1} :
        current_process' =
            [current_process EXCEPT !.state = "exited", !.returncode = code]
    /\ UNCHANGED <<target_lang, wf_pc, wf_step, vp_is_cancelled, cancel_called,
                   steps, spawned, returns, wf_result>>
    /\ UNCHANGED <<synthVars, chainVars, appVars, transVars, guiVars, batchVars,
                   jobVars>>

\* s3_generate_voiceover.py lines 266-283: main() returns when
\* generate_voiceover returns, and the interpreter exits with 0; an
\* exception that leaves generate_voiceover ends the script with 1
VoiceoverExits ==
    /\ current_process # NoProcess
    /\ current_process.state = "running"
    /\ current_process.script = scripts.voiceover
    /\ vo_pc \in {"done", "raised"}
    /\ current_process' =
           [current_process EXCEPT !.state = "exited",
                                   !.returncode = IF vo_pc = "done" THEN 0 ELSE 1]
    /\ UNCHANGED <<target_lang, wf_pc, wf_step, vp_is_cancelled, cancel_called,
                   steps, spawned, returns, wf_result>>
    /\ UNCHANGED <<synthVars, chainVars, appVars, transVars, guiVars, batchVars,
                   jobVars>>

\* lines 118-121 with 146-147: a line of the script's output is read while
\* the flag is set
ReadLine ==
    /\ wf_pc = "read"
    /\ vp_is_cancelled
    /\ vo_pc' = Killed(current_process)
    /\ current_process' = NoProcess
    /\ StepReturns(FALSE)
    /\ UNCHANGED <<GTTS_AVAILABLE, vo_subs, vo_i, attempt, chain_log, temp_files,
                   counts, input_files, voice, warnings, mix_result>>
    /\ UNCHANGED <<target_lang, vp_is_cancelled, cancel_called, spawned>>
    /\ UNCHANGED <<synthVars, appVars, transVars, guiVars, batchVars, jobVars>>

\* lines 126-135 with 146-147: the output has ended, wait() gives the exit
\* code
Wait ==
    /\ wf_pc = "read"
    /\ current_process.state = "exited"
    /\ StepReturns(current_process.returncode = 0)
    /\ current_process' = NoProcess
    /\ UNCHANGED <<target_lang, vp_is_cancelled, cancel_called, spawned>>
    /\ UNCHANGED <<synthVars, chainVars, appVars, transVars, guiVars, batchVars,
                   jobVars>>

\* lines 71-78: cancel(), called from the other thread while the workflow
\* runs
VpCancel ==
    /\ wf_pc \in {"check", "spawn", "read"}
    /\ vp_is_cancelled' = TRUE
    /\ cancel_called' = TRUE
    /\ IF current_process = NoProcess
       THEN UNCHANGED <<current_process, vo_pc>>
       ELSE /\ current_process' = Terminated(current_process)
            /\ vo_pc' = Killed(current_process)
    /\ UNCHANGED <<GTTS_AVAILABLE, vo_subs, vo_i, attempt, chain_log, temp_files,
                   counts, input_files, voice, warnings, mix_result>>
    /\ UNCHANGED <<target_lang, wf_pc, wf_step, steps, spawned, returns,
                   wf_result>>
    /\ UNCHANGED <<synthVars, appVars, transVars, guiVars, batchVars, jobVars>>

(***************************************************************************)
(* s2_translate.py: translate_text with its retries and translate_srt.     *)
(* A provider call raises, or returns a result whose text may be empty.    *)
(***************************************************************************)
\* line 7: max_retries: int = 3, the value translate_srt calls it with
TranslateRetries == 3

ProviderOutcomes ==
    {[raises |-> FALSE, text |-> <<"T">>],
     [raises |-> FALSE, text |-> <<>>],
     [raises |-> TRUE, text |-> <<>>]}

\* a test that takes every result for a translation
AnyResult(out) == ~out.raises

\* line 38: if result and result.text
HasText(out) == ~out.raises /\ out.text # <<>>

\* lines 33-52: one iteration of the retry loop of translate_text; "again"
\* when the loop goes on, else the pair it returns
TranslateIteration(text, att, retries, out) ==
    IF HasText(out)
    THEN [ret |-> "done", text |-> out.text, success |-> TRUE]
    ELSE IF att + 1 < retries
    THEN [ret |-> "again", text |-> text, success |-> FALSE]
    ELSE [ret |-> "done", text |-> text, success |-> FALSE]

\* srt.Subtitle(index, start, end, content)
Subtitle(index, start, end, content) ==
    [index |-> index, start |-> start, end |-> end, content |-> content]

\* the order of srt.Subtitle: by start, then end, then index
Before(a, b) ==
    \/ a.start < b.start
    \/ a.start = b.start /\ a.end < b.end
    \/ a.start = b.start /\ a.end = b.end /\ a.index <= b.index

RECURSIVE Sorted(_)
Sorted(ss) ==
    IF ss = <<>> THEN <<>>
    ELSE LET k == CHOOSE k \in DOMAIN ss :
                    \A h \in DOMAIN ss : Before(ss[k], ss[h]) /\ (Before(ss[h], ss[k]) => k <= h)
         IN  <<ss[k]>> \o Sorted(SubSeq(ss, 1, k - 1) \o SubSeq(ss, k + 1, Len(ss)))

\* what srt.compose leaves out: no content, a negative start, an end before
\* the start
Skipped(sub) ==
    strip(sub.content) = <<>> \/ sub.start < 0 \/ sub.start > sub.end

RECURSIVE Reindexed(_, _)
Reindexed(ss, n) ==
    IF ss = <<>> THEN <<>>
    ELSE IF Skipped(Head(ss)) THEN Reindexed(Tail(ss), n)
    ELSE <<[Head(ss) EXCEPT !.index = n]>> \o Reindexed(Tail(ss), n + 1)

\* line 95: srt.compose(new_subs), with its defaults reindex=True and
\* start_index=1: the entries written are sorted, those without content are
\* left out and the others are numbered from 1
compose(ss) == Reindexed(Sorted(ss), 1)

NoCall == [calls |-> 0, last |-> [raises |-> FALSE, text |-> <<>>],
           returned |-> FALSE, text |-> <<>>, success |-> FALSE]

\* lines 60-66: the input file is read and parsed
TrStart ==
    /\ t_pc = "start"
    /\ t_pc' = "loop"
    /\ t_i' = 1
    /\ UNCHANGED <<t_subs, t_attempt, t_log, new_subs, t_out, t_ret>>
    /\ UNCHANGED <<synthVars, chainVars, appVars, flowVars, guiVars, batchVars,
                   jobVars>>

\* lines 68-72: the next entry; one without text is appended as it is
TrNext ==
    /\ t_pc = "loop"
    /\ IF t_i > Len(t_subs)
       THEN t_pc' = "compose" /\ UNCHANGED <<t_i, t_attempt, new_subs>>
       ELSE IF strip(t_subs[t_i].content) = <<>>
       THEN /\ new_subs' = Append(new_subs, t_subs[t_i])
            /\ t_i' = t_i + 1
            /\ UNCHANGED <<t_pc, t_attempt>>
       ELSE t_pc' = "call" /\ t_attempt' = 0 /\ UNCHANGED <<t_i, new_subs>>
    /\ UNCHANGED <<t_subs, t_log, t_out, t_ret>>
    /\ UNCHANGED <<synthVars, chainVars, appVars, flowVars, guiVars, batchVars,
                   jobVars>>

\* lines 33-52 with 75-92: one provider call of translate_text; when it
\* returns, the new entry is built and appended
TrCall ==
    /\ t_pc = "call"
    /\ \E out \in ProviderOutcomes :
        LET sub == t_subs[t_i]
            r == TranslateIteration(strip(sub.content), t_attempt,
                                    TranslateRetries, out)
        IN  IF r.ret = "again"
            THEN /\ t_log' = [t_log EXCEPT ![t_i].calls = @ + 1, ![t_i].last = out]
                 /\ t_attempt' = t_attempt + 1
                 /\ UNCHANGED <<t_pc, t_i, new_subs>>
            ELSE /\ t_log' = [t_log EXCEPT ![t_i] =
                        [calls |-> @.calls + 1, last |-> out, returned |-> TRUE,
                         text |-> r.text, success |-> r.success]]
                 /\ new_subs' = Append(new_subs,
                        Subtitle(sub.index, sub.start, sub.end, r.text))
                 /\ t_i' = t_i + 1
                 /\ t_pc' = "loop"
                 /\ UNCHANGED t_attempt
    /\ UNCHANGED <<t_subs, t_out, t_ret>>
    /\ UNCHANGED <<synthVars, chainVars, appVars, flowVars, guiVars, batchVars,
                   jobVars>>

\* lines 94-106: the output is composed and written, True is returned with
\* or without failed entries
TrCompose ==
    /\ t_pc = "compose"
    /\ t_out' = [written |-> TRUE, entries |-> compose(new_subs)]
    /\ t_ret' = "True"
    /\ t_pc' = "returned"
    /\ UNCHANGED <<t_subs, t_i, t_attempt, t_log, new_subs>>
    /\ UNCHANGED <<synthVars, chainVars, appVars, flowVars, guiVars, batchVars,
                   jobVars>>

(***************************************************************************)
(* Subtitle files used as inputs.                                          *)
(***************************************************************************)
Sub(start, end, content) == [start |-> start, end |-> end, content |-> content]

Readable(entries) == [readable |-> TRUE, entries |-> entries]
Unreadable == [readable |-> FALSE, entries |-> <<>>]

SrtOne == Readable(<<Sub(0, 2000, <<"h", "i">>)>>)
SrtBlank == Readable(<<Sub(0, 2000, <<" ">>)>>)
\* the third entry is empty after stripping
SrtMixed ==
    Readable(<<Sub(0, 2000, <<"h", "i">>), Sub(2000, 2500, <<" ", "y", "o">>),
               Sub(2500, 3000, <<" ", "\n">>), Sub(3000, 6000, <<"o", "k">>)>>)
SrtLong ==
    Readable(<<Sub(0, 1000, <<"a">>), Sub(1000, 2000, <<"b">>),
               Sub(2000, 3000, <<"c">>), Sub(3000, 3000, <<>>),
               Sub(3000, 4000, <<"d">>), Sub(4000, 5000, <<"e">>)>>)
\* an entry that ends before it starts, then one that ends as it starts
SrtBackwards ==
    Readable(<<Sub(2000, 1000, <<"h", "i">>), Sub(3000, 3000, <<"o">>)>>)

\* the languages of demo(), in its order, then the next ones of the table
LangOrder == <<"en", "es", "pt", "ja", "fr", "de", "it", "ru", "ko", "ar">>

PairsOf(n) ==
    [k \in 1..n |-> [lang |-> LangOrder[k],
                     srt_file |-> "video_" \o LangOrder[k] \o ".srt"]]

NoReport == [built |-> FALSE]

IdleRc == [burn |-> "none", mux |-> "none"]

JobsInit(n, pc) ==
    /\ jpc = [j \in 1..n |-> pc]
    /\ subs = [j \in 1..n |-> <<>>]
    /\ sub_i = [j \in 1..n |-> 0]
    /\ seg = [j \in 1..n |-> <<>>]
    /\ seg_done_order = [j \in 1..n |-> <<>>]
    /\ seg_pre_finished = [j \in 1..n |-> {}]
    /\ segments_info = [j \in 1..n |-> <<>>]
    /\ mixer_calls = [j \in 1..n |-> <<>>]
    /\ start_time = [j \in 1..n |-> ClockStart]
    /\ result = [j \in 1..n |-> [success |-> FALSE]]
    /\ rc = [j \in 1..n |-> IdleRc]
    /\ touched = [j \in 1..n |-> {}]

BatchIdle ==
    /\ max_workers = 0
    /\ next_pair = 0
    /\ done_order = <<>>
    /\ pre_finished = {}
    /\ results = <<>>
    /\ report = NoReport
    /\ report_writes = 0

(***************************************************************************)
(* The program around a batch: ProcessingThread.run of the GUI with its    *)
(* cancel flag, the command line of multilang_fast_parallel (__main__ and  *)
(* demo()), and a direct call of the class.                                *)
(***************************************************************************)
Running == [kind |-> "running"]
Exit(code) == [kind |-> "exit", code |-> code]
\* finished_signal.emit(success, results)
Finished(success) == [kind |-> "finished_signal", success |-> success]
\* the thread ended without emitting finished_signal
Silent == [kind |-> "silent"]
Returned == [kind |-> "returned"]
Raised == [kind |-> "raised"]

AppIdle ==
    /\ entry = "none"
    /\ args = [none |-> TRUE]
    /\ app_pc = "idle"
    /\ lang_i = 0
    /\ language_srt_pairs = <<>>
    /\ is_cancelled = FALSE
    /\ processor = "none"
    /\ app_out = Running

\* how an uncaught exception of the entry point ends
Uncaught ==
    CASE entry = "gui" -> Finished(FALSE)    \* lines 181-183
      [] entry = "api" -> Raised
      [] OTHER -> Exit(1)

\* gui_app_v1.py lines 125-152: one iteration of the language loop.  The
\* subtitle file of the language exists, or is translated, or is not
\* obtained
ThreadPrepare ==
    /\ entry = "gui" /\ app_pc = "prepare"
    /\ lang_i <= Len(args.target_langs)
    /\ ~is_cancelled
    /\ \E got \in BOOLEAN :
        language_srt_pairs' = IF got
            THEN Append(language_srt_pairs, args.target_langs[lang_i])
            ELSE language_srt_pairs
    /\ lang_i' = lang_i + 1
    /\ UNCHANGED <<entry, args, app_pc, is_cancelled, processor, app_out>>
    /\ UNCHANGED <<synthVars, chainVars, flowVars, transVars, guiVars, batchVars,
                   jobVars>>

\* gui_app_v1.py lines 126-127 and 154-157: the loop is left, at its end or
\* by the break; without a pair the thread reports and returns
ThreadPrepared ==
    /\ entry = "gui" /\ app_pc = "prepare"
    /\ lang_i > Len(args.target_langs) \/ is_cancelled
    /\ IF language_srt_pairs = <<>>
       THEN app_pc' = "over" /\ app_out' = Finished(FALSE)
       ELSE app_pc' = "construct" /\ UNCHANGED app_out
    /\ UNCHANGED <<entry, args, lang_i, language_srt_pairs, is_cancelled,
                   processor>>
    /\ UNCHANGED <<synthVars, chainVars, flowVars, transVars, guiVars, batchVars,
                   jobVars>>

\* gui_app_v1.py lines 185-187
Cancel ==
    /\ entry = "gui"
    /\ app_pc \in {"prepare", "construct", "call", "batch"}
    /\ ~is_cancelled
    /\ is_cancelled' = TRUE
    /\ UNCHANGED <<entry, args, app_pc, lang_i, language_srt_pairs, processor,
                   app_out>>
    /\ UNCHANGED <<synthVars, chainVars, flowVars, transVars, guiVars, batchVars,
                   jobVars>>

\* lines 528-540: a file that exists and carries _<lang>. in its name gives
\* a pair; the k-th file is tagged with the k-th language
IdentifiedPairs(srt_files) ==
    LET tagged == {k \in DOMAIN srt_files : srt_files[k] = "tagged"}
        order == SortedSeq(tagged)
    IN  [n \in DOMAIN order |-> LangOrder[order[n]]]

\* lines 518-544: the command line with arguments
MainStart ==
    /\ entry = "cli" /\ app_pc = "main"
    /\ IF ~args.video_exists
       THEN /\ app_pc' = "over" /\ app_out' = Exit(1)
            /\ UNCHANGED language_srt_pairs
       ELSE /\ language_srt_pairs' = IdentifiedPairs(args.srt_files)
            /\ IF language_srt_pairs' = <<>>
               THEN app_pc' = "over" /\ app_out' = Exit(1)
               ELSE app_pc' = "construct" /\ UNCHANGED app_out
    /\ UNCHANGED <<entry, args, lang_i, is_cancelled, processor>>
    /\ UNCHANGED <<synthVars, chainVars, flowVars, transVars, guiVars, batchVars,
                   jobVars>>

\* lines 488-493: the pairs of demo()
DemoPairs == <<"en", "es", "pt", "ja">>

\* lines 481-505 with 548-549: the command line without arguments; demo()
\* returns when a file is missing and the interpreter exits with 0
DemoStart ==
    /\ entry = "demo" /\ app_pc = "main"
    /\ language_srt_pairs' = DemoPairs
    /\ IF ~args.video_exists \/ args.srt_missing
       THEN app_pc' = "over" /\ app_out' = Exit(0)
       ELSE app_pc' = "construct" /\ UNCHANGED app_out
    /\ UNCHANGED <<entry, args, lang_i, is_cancelled, processor>>
    /\ UNCHANGED <<synthVars, chainVars, flowVars, transVars, guiVars, batchVars,
                   jobVars>>

\* FastParallelProcessor(video).batch_process_parallel(pairs, max_workers)
\* called by other code
ApiStart ==
    /\ entry = "api" /\ app_pc = "main"
    /\ language_srt_pairs' = args.pairs
    /\ app_pc' = "construct"
    /\ UNCHANGED <<entry, args, lang_i, is_cancelled, processor, app_out>>
    /\ UNCHANGED <<synthVars, chainVars, flowVars, transVars, guiVars, batchVars,
                   jobVars>>

\* lines 364-373: FastParallelProcessor.__init__; float() of what ffprobe
\* printed raises when that is no number
Construct ==
    /\ app_pc = "construct"
    /\ \E probe \in {"ok", "garbage"} :
        IF probe = "ok"
        THEN /\ processor' = "built"
             /\ video_duration' = 9000
             /\ app_pc' = "call"
             /\ UNCHANGED app_out
        ELSE /\ processor' = "failed"
             /\ app_pc' = "over"
             /\ app_out' = Uncaught
             /\ UNCHANGED video_duration
    /\ UNCHANGED <<entry, args, lang_i, language_srt_pairs, is_cancelled>>
    /\ UNCHANGED <<cpu_count, pairs, srt_data, max_workers_arg, max_workers,
                   bpc, next_pair, done_order, pre_finished, results, report,
                   report_writes>>
    /\ UNCHANGED <<synthVars, chainVars, flowVars, transVars, guiVars, jobVars>>

\* gui_app_v1.py lines 173-176, multilang_fast_parallel.py lines 511 and
\* 547: batch_process_parallel is called with the pairs
CallBatch ==
    /\ app_pc = "call"
    /\ app_pc' = "batch"
    /\ LET n == Len(language_srt_pairs) IN
        /\ pairs' = [k \in 1..n |->
               [lang |-> language_srt_pairs[k],
                srt_file |-> "video_" \o language_srt_pairs[k] \o ".srt"]]
        /\ srt_data' = [k \in 1..n |-> SrtOne]
        /\ jpc' = [j \in 1..n |-> "unsubmitted"]
        /\ subs' = [j \in 1..n |-> <<>>]
        /\ sub_i' = [j \in 1..n |-> 0]
        /\ seg' = [j \in 1..n |-> <<>>]
        /\ seg_done_order' = [j \in 1..n |-> <<>>]
        /\ seg_pre_finished' = [j \in 1..n |-> {}]
        /\ segments_info' = [j \in 1..n |-> <<>>]
        /\ mixer_calls' = [j \in 1..n |-> <<>>]
        /\ start_time' = [j \in 1..n |-> ClockStart]
        /\ result' = [j \in 1..n |-> [success |-> FALSE]]
        /\ rc' = [j \in 1..n |-> IdleRc]
        /\ touched' = [j \in 1..n |-> {}]
    /\ caller' = IF entry = "gui" THEN "gui" ELSE "cli"
    /\ max_workers_arg' = CASE entry = "gui" -> WorkersArg(parallel_spin)
                            [] entry = "api" -> args.max_workers
                            [] OTHER -> NoWorkersArg
    /\ bpc' = "start"
    /\ UNCHANGED <<entry, args, lang_i, language_srt_pairs, is_cancelled,
                   processor, app_out>>
    /\ UNCHANGED <<cpu_count, video_duration, max_workers, next_pair,
                   done_order, pre_finished, results, report, report_writes>>
    /\ UNCHANGED <<parallel_spin, faults_left, files>>
    /\ UNCHANGED <<synthVars, chainVars, flowVars, transVars>>

\* gui_app_v1.py lines 178-183, multilang_fast_parallel.py lines 513-515 and
\* 547: batch_process_parallel returned its report or raised
BatchOver ==
    /\ app_pc = "batch"
    /\ bpc \in {"done", "raised"}
    /\ app_pc' = "over"
    /\ app_out' =
        IF bpc = "raised" THEN Uncaught
        ELSE CASE entry = "gui" -> IF is_cancelled THEN Silent ELSE Finished(TRUE)
               [] entry = "api" -> Returned
               [] OTHER -> Exit(0)
    /\ UNCHANGED <<entry, args, lang_i, language_srt_pairs, is_cancelled,
                   processor>>
    /\ UNCHANGED <<synthVars, chainVars, flowVars, transVars, guiVars, batchVars,
                   jobVars>>

(***************************************************************************)
(* Spec: a batch run from either caller.                                   *)
(***************************************************************************)
BatchSrts == {SrtOne, SrtBlank, Unreadable}
\* what the user left in the spin box
BatchSpins == {1, 2}

Init ==
    /\ SynthIdle
    /\ FlowIdle
    /\ TransIdle
    /\ ChainIdle
    /\ AppIdle
    /\ parallel_spin \in BatchSpins
    /\ caller = "none"
    /\ cpu_count = 2
    /\ video_duration = 9000
    /\ \E n \in 1..MaxPairs :
        /\ pairs = PairsOf(n)
        /\ srt_data \in [1..n -> BatchSrts]
        /\ JobsInit(n, "unsubmitted")
    /\ max_workers_arg = NoWorkersArg
    /\ bpc = "idle"
    /\ BatchIdle
    /\ faults_left = MaxFaults
    /\ files = {}

Next ==
    \/ StartProcessing
    \/ CliMain
    \/ BatchStart
    \/ BatchSubmit
    \/ \E j \in Jobs : JobStart(j)
    \/ \E j \in Jobs : JobParse(j)
    \/ \E j \in Jobs : JobSubmit(j)
    \/ \E j \in Jobs : \E i \in DOMAIN seg[j] : SegStart(j, i)
    \/ \E j \in Jobs : \E i \in DOMAIN seg[j] : SegDone(j, i)
    \/ \E j \in Jobs : JobCollect(j)
    \/ \E j \in Jobs : JobMix(j)
    \/ \E j \in Jobs : JobWriteSrt(j)
    \/ \E j \in Jobs : JobBurn(j)
    \/ \E j \in Jobs : JobMux(j)
    \/ \E j \in Jobs : JobCleanup(j)
    \/ \E j \in Jobs : JobCrash(j)
    \/ BatchCollect
    \/ BatchReport

Spec == Init /\ [][Next]_vars

(***************************************************************************)
(* SpecJob: process_single_language called once, directly.                 *)
(***************************************************************************)
JobSrts == {SrtOne, SrtBlank, SrtMixed, SrtLong, SrtBackwards, Unreadable}
\* "xx" is no key of LANGUAGE_CONFIG
JobLangs == {"en", "xx"}

\* what an earlier run left in the output directory
EarlierRuns == {{}, {OutputVideo("output_fast", "en")}}

InitJob ==
    /\ SynthIdle
    /\ FlowIdle
    /\ TransIdle
    /\ ChainIdle
    /\ AppIdle
    /\ parallel_spin = SpinInitial
    /\ caller = "direct"
    /\ cpu_count = 1
    /\ video_duration = 9000
    /\ \E lang \in JobLangs :
        pairs = <<[lang |-> lang, srt_file |-> "video_" \o lang \o ".srt"]>>
    /\ srt_data \in [{1} -> JobSrts]
    /\ JobsInit(1, "queued")
    /\ max_workers_arg = NoWorkersArg
    /\ bpc = "direct"
    /\ max_workers = 1
    /\ next_pair = 0
    /\ done_order = <<>>
    /\ pre_finished = {}
    /\ results = <<>>
    /\ report = NoReport
    /\ report_writes = 0
    /\ faults_left = MaxJobFaults
    \* (the long subtitle file and the one with backward entries are run in
    \* an empty output directory)
    /\ files \in IF srt_data[1] \in {SrtLong, SrtBackwards}
                 THEN {{}} ELSE EarlierRuns

NextJob ==
    \/ \E j \in Jobs : JobStart(j)
    \/ \E j \in Jobs : JobParse(j)
    \/ \E j \in Jobs : JobSubmit(j)
    \/ \E j \in Jobs : \E i \in DOMAIN seg[j] : SegStart(j, i)
    \/ \E j \in Jobs : \E i \in DOMAIN seg[j] : SegDone(j, i)
    \/ \E j \in Jobs : JobCollect(j)
    \/ \E j \in Jobs : JobMix(j)
    \/ \E j \in Jobs : JobWriteSrt(j)
    \/ \E j \in Jobs : JobBurn(j)
    \/ \E j \in Jobs : JobMux(j)
    \/ \E j \in Jobs : JobCleanup(j)

SpecJob == InitJob /\ [][NextJob]_vars

(***************************************************************************)
(* SpecSynth: generate_segment_voice_fast called once.                     *)
(***************************************************************************)
NothingElse ==
    /\ parallel_spin = SpinInitial
    /\ caller = "none"
    /\ cpu_count = 1
    /\ video_duration = 0
    /\ pairs = <<>>
    /\ srt_data = <<>>
    /\ JobsInit(0, "unsubmitted")
    /\ max_workers_arg = NoWorkersArg
    /\ bpc = "idle"
    /\ BatchIdle
    /\ faults_left = 0
    /\ files = {}

InitSynth ==
    SynthInit /\ ChainIdle /\ AppIdle /\ FlowIdle /\ TransIdle /\ NothingElse

NextSynth == SynthCall

SpecSynth == InitSynth /\ [][NextSynth]_vars

(***************************************************************************)
(* SpecChain: generate_voiceover run on a subtitle file, with and without  *)
(* gTTS installed.                                                         *)
(***************************************************************************)
ChainTexts == {<<"h", "i">>, <<" ">>}

ChainSubs ==
    UNION {{[k \in 1..n |-> Sub((k - 1) * 2000, k * 2000, t[k])] :
               t \in [1..n -> ChainTexts]} : n \in 0..MaxChainSubs}

InitChain ==
    /\ SynthIdle
    /\ FlowIdle
    /\ TransIdle
    /\ AppIdle
    /\ NothingElse
    /\ GTTS_AVAILABLE \in BOOLEAN
    /\ vo_subs \in ChainSubs
    /\ vo_pc = "start"
    /\ vo_i = 0
    /\ attempt = 0
    /\ chain_log = [k \in DOMAIN vo_subs |-> [tries |-> <<>>, end |-> "none"]]
    /\ temp_files = [k \in DOMAIN vo_subs |-> -1]
    /\ counts = NoCounts
    /\ input_files = <<>>
    /\ voice = VOICE
    /\ warnings = 0
    /\ mix_result = "none"

NextChain ==
    \/ VoStart
    \/ VoNext
    \/ EdgeAttempt
    \/ GttsAttempt
    \/ VoFinish

SpecChain == InitChain /\ [][NextChain]_vars

(***************************************************************************)
(* SpecPool: how a batch gets its number of workers, from both callers.    *)
(***************************************************************************)
InitPool ==
    /\ SynthIdle
    /\ FlowIdle
    /\ TransIdle
    /\ ChainIdle
    /\ AppIdle
    /\ parallel_spin = SpinInitial
    /\ caller = "none"
    /\ cpu_count \in 1..MaxCpu
    /\ video_duration = 9000
    /\ \E n \in 0..MaxPoolPairs :
        /\ pairs = PairsOf(n)
        /\ srt_data = [j \in 1..n |-> SrtOne]
        /\ JobsInit(n, "unsubmitted")
    /\ max_workers_arg = NoWorkersArg
    /\ bpc = "idle"
    /\ BatchIdle
    /\ faults_left = 0
    /\ files = {}

NextPool ==
    \/ \E v \in 0..MaxSpinInput : SpinSetValue(v)
    \/ StartProcessing
    \/ CliMain
    \/ BatchStart

SpecPool == InitPool /\ [][NextPool]_vars

(***************************************************************************)
(* SpecApp: the program from its entry point to its end: the GUI thread    *)
(* with a cancellation at any moment, the command line with and without    *)
(* arguments, and a direct call of the class.                              *)
(***************************************************************************)
\* what a file named on the command line is: absent, present without a
\* language tag in its name, present with one
ArgKinds == {"missing", "untagged", "tagged"}

AppArgs(e) ==
    CASE e = "gui" ->
            {[target_langs |-> [k \in 1..n |-> LangOrder[k]]] : n \in 1..MaxPairs}
      [] e = "cli" ->
            {[video_exists |-> v, srt_files |-> f] :
                v \in BOOLEAN, f \in UNION {[1..n -> ArgKinds] : n \in 0..MaxPairs}}
      [] e = "demo" ->
            {[video_exists |-> v, srt_missing |-> m] : v \in BOOLEAN, m \in BOOLEAN}
      [] OTHER ->
            {[pairs |-> [k \in 1..n |-> LangOrder[k]], max_workers |-> w] :
                n \in 0..1, w \in {NoWorkersArg, WorkersArg(SpinInitial)}}

InitApp ==
    /\ SynthIdle
    /\ FlowIdle
    /\ TransIdle
    /\ ChainIdle
    /\ entry \in {"gui", "cli", "demo", "api"}
    /\ args \in AppArgs(entry)
    /\ app_pc = IF entry = "gui" THEN "prepare" ELSE "main"
    /\ lang_i = 1
    /\ language_srt_pairs = <<>>
    /\ is_cancelled = FALSE
    /\ processor = "none"
    /\ app_out = Running
    /\ parallel_spin = SpinInitial
    /\ caller = "none"
    /\ cpu_count = 2
    /\ video_duration = 0
    /\ pairs = <<>>
    /\ srt_data = <<>>
    /\ JobsInit(0, "unsubmitted")
    /\ max_workers_arg = NoWorkersArg
    /\ bpc = "idle"
    /\ BatchIdle
    /\ faults_left = 0
    /\ files = {}

NextApp ==
    \/ ThreadPrepare
    \/ ThreadPrepared
    \/ Cancel
    \/ MainStart
    \/ DemoStart
    \/ ApiStart
    \/ Construct
    \/ CallBatch
    \/ BatchStart
    \/ BatchSubmit
    \/ \E j \in Jobs : JobStart(j)
    \/ \E j \in Jobs : JobParse(j)
    \/ \E j \in Jobs : JobSubmit(j)
    \/ \E j \in Jobs : \E i \in DOMAIN seg[j] : SegStart(j, i)
    \/ \E j \in Jobs : \E i \in DOMAIN seg[j] : SegDone(j, i)
    \/ \E j \in Jobs : JobCollect(j)
    \/ \E j \in Jobs : JobMix(j)
    \/ \E j \in Jobs : JobWriteSrt(j)
    \/ \E j \in Jobs : JobBurn(j)
    \/ \E j \in Jobs : JobMux(j)
    \/ \E j \in Jobs : JobCleanup(j)
    \/ BatchCollect
    \/ BatchReport
    \/ BatchOver

SpecApp == InitApp /\ [][NextApp]_vars

(***************************************************************************)
(* SpecFlow: one run of VideoProcessor.full_workflow for every target      *)
(* language that has a default voice, with cancel() called at any moment   *)
(* by another thread; the voiceover step runs generate_voiceover.          *)
(***************************************************************************)
\* what the translated subtitle file holds when the voiceover script reads it
FlowSubs ==
    {<<>>, <<Sub(0, 2000, <<"h", "i">>)>>, <<Sub(0, 2000, <<" ">>)>>}

InitFlow ==
    /\ SynthIdle
    /\ TransIdle
    /\ AppIdle
    /\ NothingElse
    /\ GTTS_AVAILABLE = TRUE
    /\ vo_subs \in FlowSubs
    /\ vo_pc = "idle"
    /\ vo_i = 0
    /\ attempt = 0
    /\ chain_log = [k \in DOMAIN vo_subs |-> [tries |-> <<>>, end |-> "none"]]
    /\ temp_files = [k \in DOMAIN vo_subs |-> -1]
    /\ counts = NoCounts
    /\ input_files = <<>>
    /\ voice = VOICE
    /\ warnings = 0
    /\ mix_result = "none"
    /\ target_lang \in DOMAIN default_voices
    /\ wf_pc = "called"
    /\ wf_step = 0
    /\ current_process = NoProcess
    /\ vp_is_cancelled = FALSE
    /\ cancel_called = FALSE
    /\ steps = <<>>
    /\ spawned = <<>>
    /\ returns = <<>>
    /\ wf_result = [success |-> FALSE]

NextFlow ==
    \/ FlowStart
    \/ RunScriptCheck
    \/ Spawn
    \/ ScriptExits
    \/ VoiceoverExits
    \/ ReadLine
    \/ Wait
    \/ VpCancel
    \/ VoStart
    \/ VoNext
    \/ EdgeAttempt
    \/ GttsAttempt
    \/ VoFinish

SpecFlow == InitFlow /\ [][NextFlow]_vars

(***************************************************************************)
(* SpecTranslate: translate_srt run on a subtitle file, the provider        *)
(* failing or answering at every call.                                     *)
(***************************************************************************)
TransInputs ==
    {<<Subtitle(1, 0, 1000, <<"h", "i">>)>>,
     <<Subtitle(1, 0, 1000, <<"h", "i">>), Subtitle(2, 1000, 2000, <<" ", "y", "o">>)>>,
     <<Subtitle(1, 0, 1000, <<"h", "i">>), Subtitle(2, 1000, 2000, <<" ">>),
       Subtitle(3, 2000, 3000, <<"y", "o">>)>>,
     <<Subtitle(7, 2000, 3000, <<"y", "o">>), Subtitle(8, 0, 1000, <<"h", "i">>)>>}

InitTranslate ==
    /\ SynthIdle
    /\ FlowIdle
    /\ ChainIdle
    /\ AppIdle
    /\ NothingElse
    /\ t_subs \in TransInputs
    /\ t_pc = "start"
    /\ t_i = 0
    /\ t_attempt = 0
    /\ t_log = [k \in DOMAIN t_subs |-> NoCall]
    /\ new_subs = <<>>
    /\ t_out = NoFile
    /\ t_ret = "none"

NextTranslate ==
    \/ TrStart
    \/ TrNext
    \/ TrCall
    \/ TrCompose

SpecTranslate == InitTranslate /\ [][NextTranslate]_vars

(***************************************************************************)
(* Properties.                                                             *)
(***************************************************************************)
REq(a, b) == a[1] * b[2] = b[1] * a[2]

EntriesOf(j) == {k \in DOMAIN results : results[k].job = j}

\* C1: in every report that is built, success_count is the number of entries
\* of results whose success flag is true, which is the number of jobs that
\* returned a success record, whatever the jobs' outcomes and their order.
C1_SuccessCountMatches ==
    report.built =>
        /\ report.success_count =
               Cardinality({k \in DOMAIN report.results : report.results[k].success})
        /\ report.success_count =
               Cardinality({j \in Jobs : jpc[j] = "returned" /\ result[j].success})

C1_Witness ==
    /\ report.built
    /\ Len(report.results) = 2
    /\ report.success_count = 1
    /\ \E j \in Jobs : jpc[j] = "crashed"

C3_PathsDisjoint ==
    \A j1, j2 \in Jobs :
        LangOf(j1) # LangOf(j2) => touched[j1] \cap touched[j2] = {}

C3_Witness ==
    \E j1, j2 \in Jobs :
        /\ j1 # j2
        /\ Executing(j1) /\ Executing(j2)
        /\ rc[j1].burn = "fail"
        /\ OutputSrt(OutputDir, LangOf(j2)) \in touched[j2]

\* C4: process_single_language never raises, whatever its input: it always
\* returns a result record.
C4_JobNeverRaises == \A j \in Jobs : jpc[j] # "raised"

\* C5: at every moment of a batch at most max_workers jobs are executing.
C5_AtMostMaxWorkers ==
    Cardinality({j \in Jobs : Executing(j)}) <= max_workers

C5_Witness ==
    /\ max_workers = 1
    /\ \E j1, j2 \in Jobs : Executing(j1) /\ jpc[j2] = "queued"

\* C6: in every running job at most 4 segment syntheses are in flight.
C6_AtMostFourSegments ==
    \A j \in Jobs : Cardinality(SegInFlight(j)) <= 4

C6_Witness ==
    \E j \in Jobs :
        /\ Cardinality(SegInFlight(j)) = 4
        /\ \E i \in DOMAIN seg[j] : seg[j][i] = "queued"

C8_RealizedWithinTolerance ==
    (s_pc = "returned" /\ s_out.ret /\ s_target > 0 /\ s_env.natural > 0) =>
        /\ ~RLess(<<s_target + 100, 1>>, s_out.realized)
        /\ ~RLess(s_out.realized, <<s_target - 100, 1>>)

\* C9: the speed ratio is n / d clamped to [0.7, 1.5] and adjusted is
\* n / ratio; the clip is trimmed to d, with a fade starting 0.1 s before the
\* end, exactly when adjusted > d + 0.1, padded with d - adjusted of silence
\* exactly when adjusted < d - 0.1, and neither otherwise.  Targets 2.0, 0.5,
\* 3.0 with naturals 2.0, 1.0, 2.0 give the ratios 1.0, 1.5, 0.7, and the
\* second one is trimmed.
C9_RatioAndBranch ==
    (s_pc = "returned" /\ s_out.path \in {"clip", "ffmpeg_fail"}) =>
        LET d == s_target
            n == s_env.natural
            o == s_out
            clamped == IF 10 * n < 7 * d THEN <<7, 10>>
                       ELSE IF 10 * n > 15 * d THEN <<15, 10>>
                       ELSE <<n, d>>
        IN  /\ REq(o.ratio, clamped)
            /\ o.adjusted[1] * o.ratio[1] = n * o.ratio[2] * o.adjusted[2]
            /\ o.branch \in {"trim", "pad", "fit"}
            /\ o.branch = "trim" <=> RLess(<<d + 100, 1>>, o.adjusted)
            /\ o.branch = "pad" <=> RLess(o.adjusted, <<d - 100, 1>>)
            /\ o.branch = "trim" =>
                /\ o.trim_to = d
                /\ o.fade_start = (IF d > 100 THEN d - 100 ELSE 0)
                /\ REq(o.silence, <<0, 1>>)
            /\ o.branch = "pad" =>
                /\ o.trim_to = -1
                /\ REq(RAdd(o.adjusted, o.silence), <<d, 1>>)
            /\ o.branch = "fit" =>
                /\ o.trim_to = -1
                /\ REq(o.silence, <<0, 1>>)
            /\ (d = 2000 /\ n = 2000) => REq(o.ratio, <<1, 1>>)
            /\ (d = 500 /\ n = 1000) =>
                REq(o.ratio, <<15, 10>>) /\ o.branch = "trim"
            /\ (d = 3000 /\ n = 2000) => REq(o.ratio, <<7, 10>>)

C9_Witness ==
    /\ s_pc = "returned"
    /\ s_target = 500 /\ s_env.natural = 1000
    /\ s_out.ret
    /\ s_out.branch = "trim"
    /\ s_out.trim_to = 500

\* C10: a subtitle entry that is empty after stripping is never handed to the
\* synthesizer, leaves no clip, and is no input of the mixer; the mixer is
\* called with the duration of the video as its total duration.
C10_EmptyEntriesSkipped ==
    \A j \in Jobs :
        /\ \A i \in DOMAIN srt_data[j].entries :
            strip(srt_data[j].entries[i].content) = <<>> =>
                LET clip == SegFile(OutputDir, LangOf(j), i - 1) IN
                /\ i \in DOMAIN seg[j] => seg[j][i] = "none"
                /\ clip \notin files
                /\ InitFile(clip) \notin files
                /\ clip \notin touched[j]
                /\ \A k \in DOMAIN segments_info[j] : segments_info[j][k][1] # clip
                /\ \A c \in DOMAIN mixer_calls[j] :
                    clip \notin Range(mixer_calls[j][c].graph.inputs)
        /\ \A c \in DOMAIN mixer_calls[j] :
            mixer_calls[j][c].graph.t = video_duration

C10_Witness ==
    \E j \in Jobs :
        /\ srt_data[j] = SrtMixed
        /\ Len(mixer_calls[j]) = 1
        /\ Len(mixer_calls[j][1].graph.inputs) = 3
        /\ mixer_calls[j][1].graph.t = 9000

TakenOk(j) == {i \in DOMAIN seg[j] : seg[j][i] = "taken_ok"}

\* C11: the mixer's graph never runs on an empty clip set: a job in which no
\* synthesis returned success returns the failure "no speech segments"
\* without calling the mixer, every call of the mixer has at least one input,
\* and merge_audio_segments_fast returns False on an empty list without
\* running anything.
C11_Step(j) ==
    /\ (jpc[j] = "mix" /\ TakenOk(j) = {}) =>
        /\ jpc'[j] = "returned"
        /\ ~result'[j].success
        /\ result'[j].error = "no speech segments"
        /\ mixer_calls'[j] = mixer_calls[j]
        /\ files' = files
    /\ mixer_calls'[j] # mixer_calls[j] =>
        mixer_calls'[j][Len(mixer_calls'[j])].graph.inputs # <<>>
    /\ \A env \in MixEnvs :
        LET m == merge_audio_segments_fast(<<>>, video_duration, env)
        IN  ~m.ret /\ ~m.ran /\ ~m.written

C11_NoMixOnEmpty == [][\A j \in Jobs : C11_Step(j)]_vars

C11_Witness ==
    \E j \in Jobs :
        /\ srt_data[j] = SrtOne
        /\ jpc[j] = "returned"
        /\ result[j].error = "no speech segments"
        /\ mixer_calls[j] = <<>>
        /\ faults_left < MaxJobFaults

\* C12: a segment whose synthesis fails does not end the job; when at least
\* one synthesis returned success the job calls the mixer, and the clips it
\* passes are exactly those of the segments whose synthesis returned success.
C12_Step(j) ==
    /\ jpc[j] \in {"submit", "collect"} =>
        jpc'[j] \in {"submit", "collect", "mix"}
    /\ (jpc[j] = "mix" /\ TakenOk(j) # {}) =>
        /\ Len(mixer_calls'[j]) = Len(mixer_calls[j]) + 1
        /\ LET g == mixer_calls'[j][Len(mixer_calls'[j])].graph IN
            /\ Range(g.inputs) =
                   {SegFile(OutputDir, LangOf(j), i - 1) : i \in TakenOk(j)}
            /\ Len(g.inputs) = Cardinality(TakenOk(j))

C12_SuccessfulClipsMixed == [][\A j \in Jobs : C12_Step(j)]_vars

C12_Witness ==
    \E j \in Jobs :
        /\ srt_data[j] = SrtMixed
        /\ Len(mixer_calls[j]) = 1
        /\ Len(mixer_calls[j][1].graph.inputs) = 2
        /\ \E i \in DOMAIN mixer_calls[j][1].seg :
            mixer_calls[j][1].seg[i] = "taken_fail"

\* C13: when the mixer's graph fails (non-zero exit, no output, exception) the
\* job returns the failure "audio merge failed" and neither writes the
\* subtitle file nor runs the burn or the mux, also when the graph left an
\* output behind.
C13_MixFailureIsFinal ==
    \A j \in Jobs : \A c \in DOMAIN mixer_calls[j] :
        ~mixer_calls[j][c].ok =>
            /\ jpc[j] = "returned"
            /\ ~result[j].success
            /\ result[j].error = "audio merge failed"
            /\ result[j].output_video = NoneVal
            /\ rc[j] = IdleRc
            /\ touched[j] \cap {OutputSrt(OutputDir, LangOf(j)),
                                VideoOnly(OutputDir, LangOf(j)),
                                OutputVideo(OutputDir, LangOf(j))} = {}

C13_Witness ==
    \E j \in Jobs :
        /\ Len(mixer_calls[j]) = 1
        /\ ~mixer_calls[j][1].ok
        /\ MergedAudio(OutputDir, LangOf(j)) \in files
        /\ jpc[j] = "returned"

\* C14: a job whose subtitle burn or audio mux exits non-zero returns
\* success false, whatever files exist in the output directory.
C14_NonZeroExitFails ==
    \A j \in Jobs :
        (jpc[j] = "returned"
            /\ (rc[j].burn = "fail" \/ rc[j].mux \in {"fail", "fail_partial"}))
        => ~result[j].success

\* C15: when process_single_language has returned, neither a segment clip nor
\* the scratch directory temp_<lang> of the job is left.
C15_NothingLeftBehind ==
    \A j \in Jobs :
        jpc[j] = "returned" =>
            /\ TempDir(OutputDir, LangOf(j)) \notin files
            /\ \A i \in DOMAIN srt_data[j].entries :
                SegFile(OutputDir, LangOf(j), i - 1) \notin files

\* C16: when generate_segment_voice_fast has returned, the natural-rate file
\* <output>_init.mp3 does not exist any more, and a clip was written only
\* by the one ffmpeg run.
C16_InitFileRemoved ==
    s_pc = "returned" =>
        /\ ~s_out.init_left
        /\ s_out.clip_written => s_out.path \in {"clip", "ffmpeg_fail"}

C18_CompletionOrder ==
    \A k1, k2 \in DOMAIN results :
        k1 < k2 =>
            Pos(done_order, results[k1].job) < Pos(done_order, results[k2].job)

\* C19: every entry of results has the seven fields of a job result, with
\* the output paths null exactly when success is false and the error null
\* exactly when success is true.
C19_EntryShape ==
    \A k \in DOMAIN results :
        LET e == results[k].entry IN
        /\ DOMAIN e = {"lang_code", "language", "success", "output_video",
                       "output_srt", "duration", "error"}
        /\ e.output_video = NoneVal <=> ~e.success
        /\ e.output_srt = NoneVal <=> ~e.success
        /\ e.error = NoneVal <=> e.success

\* C20: the duration of a successful result is the time elapsed since the
\* start of the job, taken before the subtitle file is parsed.
C20_ElapsedFromJobStart ==
    \A j \in Jobs :
        (jpc[j] = "returned" /\ result[j].success) =>
            result[j].duration = Elapsed(ClockStart)

\* C26: whatever the order in which the segment tasks of a job finish, each
\* clip handed to the mixer comes with the start offset of the subtitle
\* entry it was synthesized from.
C26_ClipKeepsItsOffset ==
    \A j \in Jobs : \A c \in DOMAIN mixer_calls[j] :
        LET call == mixer_calls[j][c] IN
        \A k \in DOMAIN call.graph.inputs :
            \E i \in DOMAIN call.subs :
                /\ call.graph.inputs[k] = SegFile(OutputDir, LangOf(j), i - 1)
                /\ call.graph.delays[k] = call.subs[i].start

\* two clips reached the mixer in the reverse of their entries' order
C26_Witness ==
    \E j \in Jobs : \E c \in DOMAIN mixer_calls[j] :
        LET g == mixer_calls[j][c].graph IN
        \E k1, k2 \in DOMAIN g.inputs : \E i1, i2 \in DOMAIN mixer_calls[j][c].subs :
            /\ k1 < k2 /\ i1 > i2
            /\ g.inputs[k1] = SegFile(OutputDir, LangOf(j), i1 - 1)
            /\ g.inputs[k2] = SegFile(OutputDir, LangOf(j), i2 - 1)
            /\ g.delays[k1] > g.delays[k2]

Permute(s, p) == [k \in DOMAIN s |-> s[p[k]]]

PairsMixed(g) == {<<g.inputs[k], g.delays[k]>> : k \in DOMAIN g.inputs}

\* C27: for every permutation of the clip list of a mixer call, input k of
\* the graph is clip k of the permuted list, delayed by the start offset of
\* that clip; the set of (clip, delay) pairs and the truncation are those of
\* the call that was made.
C27_OrderIndependent ==
    \A j \in Jobs : \A c \in DOMAIN mixer_calls[j] :
        LET call == mixer_calls[j][c]
            segs == call.segments_info
        IN  \A p \in Permutations(DOMAIN segs) :
            LET g == MixGraph(Permute(segs, p), video_duration) IN
            /\ DOMAIN g.inputs = DOMAIN segs
            /\ \A k \in DOMAIN segs :
                /\ g.inputs[k] = segs[p[k]][1]
                /\ g.delays[k] = segs[p[k]][2]
            /\ PairsMixed(g) = PairsMixed(call.graph)
            /\ PairsMixed(g) = Range(segs)
            /\ g.t = call.graph.t

\* a call with at least three clips, not in the order of their offsets
C27_Witness ==
    \E j \in Jobs : \E c \in DOMAIN mixer_calls[j] :
        LET g == mixer_calls[j][c].graph IN
        /\ Len(g.inputs) >= 3
        /\ \E k \in DOMAIN g.delays : k > 1 /\ g.delays[k] < g.delays[k - 1]

\* the probe of the natural-rate file printed 0 or nothing usable
ProbeFails(env) == env.tts = "ok" /\ (env.probe # "ok" \/ env.natural = 0)

\* the task of entry i failed after the natural-rate file was made and
\* before any clip was written
ProbeFailedSeg(j, call, i) ==
    /\ call.seg[i] = "taken_fail"
    /\ InitFile(SegFile(OutputDir, LangOf(j), i - 1)) \in touched[j]
    /\ SegFile(OutputDir, LangOf(j), i - 1) \notin touched[j]

\* C30: when the probe yields 0 or fails, generate_segment_voice_fast
\* returns False and writes no clip; in a job that reached the mixer such a
\* segment is left out, every other submitted entry was synthesized and
\* collected, and every successful clip is mixed.
C30_ProbeFailureIsLocal ==
    /\ \A env \in SynthEnvs \cup SegEnvs : \A td \in {0, 1000} :
        ProbeFails(env) =>
            LET out == generate_segment_voice_fast(<<"h">>, td, SpeedLimit, env)
            IN  ~out.ret /\ ~out.clip_written
    /\ \A j \in Jobs : \A c \in DOMAIN mixer_calls[j] :
        LET call == mixer_calls[j][c] IN
        \A i \in DOMAIN call.seg :
            ProbeFailedSeg(j, call, i) =>
                /\ SegFile(OutputDir, LangOf(j), i - 1) \notin files
                /\ SegFile(OutputDir, LangOf(j), i - 1)
                       \notin Range(call.graph.inputs)
                /\ \A i2 \in DOMAIN call.subs :
                    /\ SubmitsEntry(call.subs[i2])
                           => call.seg[i2] \in {"taken_ok", "taken_fail"}
                    /\ call.seg[i2] = "taken_ok"
                           => SegFile(OutputDir, LangOf(j), i2 - 1)
                                  \in Range(call.graph.inputs)

\* the probe printed 0 for one entry and the job still succeeded with the
\* clips of the others
C30_Witness ==
    \E j \in Jobs : \E c \in DOMAIN mixer_calls[j] :
        LET call == mixer_calls[j][c] IN
        /\ jpc[j] = "returned" /\ result[j].success
        /\ \E i \in DOMAIN call.seg :
            /\ ProbeFailedSeg(j, call, i)
            /\ InitFile(SegFile(OutputDir, LangOf(j), i - 1)) \notin files
        /\ \E i2 \in DOMAIN call.seg : call.seg[i2] = "taken_ok"

\* the entries whose chain has ended
ChainEnded == {i \in DOMAIN chain_log : chain_log[i].end # "none"}

EndedWith(e) == {i \in DOMAIN chain_log : chain_log[i].end = e}

TriesOf(i, engine) ==
    {k \in DOMAIN chain_log[i].tries : chain_log[i].tries[k].engine = engine}

\* the chain of an entry: two failed primary attempts, then the secondary
\* engine succeeds
FellBack(i) ==
    LET t == chain_log[i].tries IN
    /\ Len(t) = 3
    /\ t[1].engine = "edge" /\ ~t[1].ok
    /\ t[2].engine = "edge" /\ ~t[2].ok
    /\ t[3].engine = "gtts" /\ t[3].ok
    /\ chain_log[i].end = "gtts"

\* C23: for every entry the primary engine is attempted at most twice when
\* the secondary engine is available and at most three times otherwise; the
\* secondary engine is attempted at most once, as the last attempt and after
\* the full number of failed primary attempts; an entry whose chain is over
\* ended with the primary engine, the secondary engine or a failure, and
\* every entry before the loop index that is not blank is over.
C23_BoundedFallback ==
    \A i \in DOMAIN chain_log :
        LET t == chain_log[i].tries
            e == chain_log[i].end
        IN  /\ Cardinality(TriesOf(i, "edge")) <= IF GTTS_AVAILABLE THEN 2 ELSE 3
            /\ Cardinality(TriesOf(i, "gtts")) <= 1
            /\ TriesOf(i, "gtts") # {} => GTTS_AVAILABLE
            /\ \A k \in TriesOf(i, "gtts") :
                /\ k = Len(t) /\ k = 3
                /\ \A m \in 1..(k - 1) : t[m].engine = "edge" /\ ~t[m].ok
            /\ \A k \in DOMAIN t : t[k].ok => k = Len(t) /\ e = t[k].engine
            /\ e \in {"none", "edge", "gtts", "failed"}
            /\ e \in {"edge", "gtts"} => t # <<>> /\ t[Len(t)].ok
            /\ e = "failed" =>
                /\ \A k \in DOMAIN t : ~t[k].ok
                /\ Len(t) = 3
                /\ GTTS_AVAILABLE <=> t[Len(t)].engine = "gtts"
            /\ (i < vo_i /\ strip(vo_subs[i].content) # <<>>) => e # "none"
            /\ vo_pc \in {"edge", "gtts"} => vo_i \in DOMAIN chain_log
            /\ (e = "none" /\ t # <<>>) => vo_i = i /\ vo_pc \in {"edge", "gtts"}

\* a run that is over in which one entry fell back to the secondary engine
\* and, without the secondary engine, one failed after three attempts
C23_Witness ==
    /\ vo_pc = "done"
    /\ \/ \E i \in DOMAIN chain_log : FellBack(i)
       \/ /\ ~GTTS_AVAILABLE
          /\ \E i \in DOMAIN chain_log :
              chain_log[i].end = "failed" /\ Len(chain_log[i].tries) = 3
    /\ \E i \in DOMAIN chain_log :
        chain_log[i].end = "edge" /\ Len(chain_log[i].tries) = 2

\* C24: an entry ended with the primary engine only by an attempt that
\* returned and left a file of more than 1000 bytes; a primary attempt that
\* returned with a file of at most 1000 bytes left no file and did not end
\* the chain with success; every clip collected for the mix belongs to an
\* entry that ended with an engine, and for the primary engine that clip is
\* larger than 1000 bytes.
C24_NoUndersizedPrimary ==
    /\ \A i \in DOMAIN chain_log :
        LET t == chain_log[i].tries IN
        /\ chain_log[i].end = "edge" =>
            /\ t[Len(t)].engine = "edge" /\ ~t[Len(t)].raises
            /\ t[Len(t)].produced > 1000
            /\ t[Len(t)].left = t[Len(t)].produced
        /\ \A k \in DOMAIN t :
            (t[k].engine = "edge" /\ ~t[k].raises /\ t[k].produced <= 1000) =>
                ~t[k].ok /\ t[k].left = -1
    /\ \A k \in DOMAIN input_files :
        LET i == input_files[k][1]
            t == chain_log[i].tries
        IN  /\ chain_log[i].end \in {"edge", "gtts"}
            /\ chain_log[i].end = "edge" => t[Len(t)].left > 1000
            /\ chain_log[i].end = "gtts" => t[Len(t)].engine = "gtts"

\* the primary engine returned a file of exactly 1000 bytes, which was
\* removed, and then a larger one, which was collected
C24_Witness ==
    \E i \in DOMAIN chain_log :
        LET t == chain_log[i].tries IN
        /\ Len(t) = 2
        /\ t[1].engine = "edge" /\ ~t[1].raises /\ t[1].produced = MinBytes
        /\ t[1].left = -1
        /\ t[2].ok /\ t[2].produced = MinBytes + 1
        /\ chain_log[i].end = "edge"
        /\ \E k \in DOMAIN input_files : input_files[k][1] = i

\* C25: the counter of the secondary engine is the number of entries that
\* ended with the secondary engine and the counter of the primary engine the
\* number that ended with the primary engine; an entry that ended with
\* either is collected and counted as a success, never as a failure, and
\* the run is not ended by an entry.
C25_EngineCounters ==
    /\ counts.edge_count = Cardinality(EndedWith("edge"))
    /\ counts.gtts_count = Cardinality(EndedWith("gtts"))
    /\ counts.success_count = Cardinality(EndedWith("edge") \cup EndedWith("gtts"))
    /\ counts.failed_count = Cardinality(EndedWith("failed"))
    /\ counts.success_count = Len(input_files)
    /\ \A i \in EndedWith("edge") \cup EndedWith("gtts") :
        \E k \in DOMAIN input_files : input_files[k][1] = i
    /\ vo_pc = "raised" => vo_subs = <<>>

\* the run is over; the primary engine failed twice for one entry, whose
\* clip came from the secondary engine, and served another entry
C25_Witness ==
    /\ vo_pc = "done"
    /\ \E i \in DOMAIN chain_log : FellBack(i)
    /\ counts.gtts_count = 1
    /\ counts.edge_count = 1
    /\ counts.success_count = 2
    /\ counts.failed_count = 0

\* C21: once the cancel flag of the ProcessingThread is set, no further
\* language is added to the pairs and no job is submitted to the pool.
C21_CancelHonoured ==
    [][is_cancelled =>
        /\ language_srt_pairs' = language_srt_pairs
        /\ \A j \in Jobs : jpc[j] = "unsubmitted" => jpc'[j] = "unsubmitted"]_vars

\* C22: a job that is in its burn or mux command while the cancel flag of
\* the ProcessingThread is set does not see that command exit with 0: the
\* command is terminated.
C22_CancelTerminates ==
    [][\A j \in Jobs :
        (is_cancelled /\ jpc'[j] # jpc[j]) =>
            /\ jpc[j] = "burn" => rc'[j].burn # "ok"
            /\ jpc[j] = "mux" => rc'[j].mux # "ok"]_vars

\* C28: the command line exits with 0 only if at least one pair was
\* identified and batch_process_parallel ran to its end.
C28_ExitZeroMeansBatchRan ==
    (entry \in {"cli", "demo"} /\ app_out = Exit(0)) =>
        /\ language_srt_pairs # <<>>
        /\ bpc = "done"
        /\ args.video_exists

\* C29: when the duration of the video cannot be determined, or the list of
\* pairs is empty, the entry point ends with an error, no job exists or is
\* submitted and no report is written; the GUI thread and the command line
\* do not even call batch_process_parallel with an empty list.
C29_FatalBeforeDispatch ==
    /\ processor = "failed" =>
        /\ app_pc = "over" /\ app_out = Uncaught
        /\ bpc = "idle" /\ Jobs = {} /\ report_writes = 0
    /\ (app_pc \in {"construct", "call", "batch", "over"}
            /\ language_srt_pairs = <<>>) =>
        /\ Jobs = {}
        /\ report_writes = 0 /\ ~report.built
        /\ bpc # "done"
        /\ entry \in {"gui", "cli"} =>
            app_pc = "over" /\ bpc = "idle" /\ processor = "none"
        /\ app_pc = "over" => app_out \in {Finished(FALSE), Exit(1), Raised}

\* batch_process_parallel was called with an empty list and a number of
\* workers, and raised
C29_Witness ==
    /\ entry = "api"
    /\ processor = "built"
    /\ language_srt_pairs = <<>>
    /\ max_workers = SpinInitial
    /\ bpc = "raised"
    /\ app_out = Raised

\* C31: a subtitle entry whose end is not after its start gives no clip to
\* the mixer.
C31_NonPositiveRejected ==
    \A j \in Jobs : \A c \in DOMAIN mixer_calls[j] :
        LET call == mixer_calls[j][c] IN
        \A i \in DOMAIN call.subs :
            call.subs[i].end - call.subs[i].start <= 0 =>
                \A k \in DOMAIN call.segments_info :
                    call.segments_info[k][1] # SegFile(OutputDir, LangOf(j), i - 1)

\* the first entry of the run that is not skipped
FirstSynthesized ==
    CHOOSE i \in DOMAIN vo_subs :
        /\ strip(vo_subs[i].content) # <<>>
        /\ \A k \in 1..(i - 1) : strip(vo_subs[k].content) = <<>>

\* C32: the notice of the engine switch is printed at most once in a
\* voiceover run, and once the loop is over it has been printed exactly when
\* the first entry that was synthesized came from the secondary engine.
C32_WarnsOnFirstFallback ==
    /\ warnings <= 1
    /\ vo_pc \in {"mix", "done"} =>
        (warnings = 1 <=>
            \E i \in DOMAIN vo_subs :
                /\ strip(vo_subs[i].content) # <<>>
                /\ i = FirstSynthesized
                /\ chain_log[i].end = "gtts")

\* the secondary engine was tried for some entry
GttsTried ==
    \E i \in DOMAIN chain_log : \E t \in DOMAIN chain_log[i].tries :
        chain_log[i].tries[t].engine = "gtts"

\* C33: when the secondary engine is called for the default voice of the
\* target language, the language text_to_speech_gtts hands to gTTS is the
\* one lang_map gives for the locale at the head of the voice identifier.
C33_FallbackLanguageOfVoice ==
    (GttsTried /\ voice = default_voices[target_lang]) =>
        GttsLang(voice) = GttsLangByPrefix(voice)

\* C35: a voiceover script that ended after synthesizing no segment, or
\* after a failed mix, makes the voiceover step return failure: the merge
\* step is not called and the workflow does not report success.
C35_EmptyVoiceoverFailsStep ==
    (wf_step >= 3 /\ vo_pc = "done"
        /\ (counts.success_count = 0 \/ mix_result = "fail")) =>
        /\ Len(returns) >= 3 => ~returns[3]
        /\ Len(steps) <= 3
        /\ ~wf_result.success

\* C37: the steps are called in the order transcribe, translate, voiceover,
\* merge, each after all the earlier ones returned success, each script is
\* started for its own step, and the success flag of the result is true
\* exactly when four steps returned and all returned success.
C37_StepsInOrder ==
    /\ steps = SubSeq(StepOrder, 1, Len(steps))
    /\ Len(returns) <= Len(steps) /\ Len(steps) <= Len(returns) + 1
    /\ wf_pc = "returned" => Len(returns) = Len(steps)
    /\ \A k \in 2..Len(steps) : returns[k - 1]
    /\ Len(spawned) <= Len(steps)
    /\ \A k \in DOMAIN spawned : spawned[k] = scripts[steps[k]]
    /\ wf_result.success <=>
        (Len(returns) = Len(StepOrder) /\ \A k \in DOMAIN returns : returns[k])

\* a workflow that ran its four steps and succeeded, without any cancel
C37_Witness ==
    /\ wf_pc = "returned"
    /\ wf_result.success
    /\ steps = StepOrder
    /\ ~cancel_called

\* C38: once cancel() was called no script is started any more, and
\* current_process is None whenever run_script is not reading a script.
C38_NoStartAfterCancel ==
    [][/\ cancel_called => spawned' = spawned
       /\ wf_pc' # "read" => current_process' = NoProcess]_vars

\* C39: when ProcessingThread.run is over it has emitted finished_signal,
\* once, with success true or false.
C39_FinishedEmitted ==
    (entry = "gui" /\ app_pc = "over") =>
        app_out \in {Finished(TRUE), Finished(FALSE)}

C34_NeverEmpty ==
    \A i \in DOMAIN t_log :
        LET e == t_log[i] IN
        /\ e.calls <= TranslateRetries
        /\ e.returned =>
            /\ e.calls >= 1
            /\ e.text # <<>>
            /\ e.success => (~e.last.raises /\ e.text = e.last.text)
            /\ ~e.success =>
                /\ e.text = strip(t_subs[i].content)
                /\ e.calls = TranslateRetries
                /\ e.last.raises \/ e.last.text = <<>>

\* three calls failed, the last with an empty answer, and the text given
\* came back
C34_Witness ==
    \E i \in DOMAIN t_log :
        /\ t_log[i].returned
        /\ ~t_log[i].success
        /\ t_log[i].calls = TranslateRetries
        /\ ~t_log[i].last.raises
        /\ t_log[i].text = <<"h", "i">>

\* C40: the file translate_srt writes has as many entries as the input, in
\* its order, each with the index, start and end of the input entry; an
\* entry without text is written as it was and costs no provider call, an
\* entry whose translation failed keeps its text, and True is returned.
C40_EntriesPreserved ==
    t_pc = "returned" =>
        /\ t_ret = "True"
        /\ t_out.written
        /\ Len(t_out.entries) = Len(t_subs)
        /\ \A k \in DOMAIN t_subs :
            k \in DOMAIN t_out.entries =>
                /\ t_out.entries[k].index = t_subs[k].index
                /\ t_out.entries[k].start = t_subs[k].start
                /\ t_out.entries[k].end = t_subs[k].end
                /\ strip(t_subs[k].content) = <<>> =>
                    (t_out.entries[k] = t_subs[k] /\ t_log[k].calls = 0)
                /\ (t_log[k].returned /\ ~t_log[k].success) =>
                    t_out.entries[k].content = strip(t_subs[k].content)

====
